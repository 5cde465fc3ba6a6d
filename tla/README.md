# A TLA+ model of the KhataBabu API

KhataBabu is a point-of-sale back end for restaurants: FastAPI handlers over
one PostgreSQL database through async SQLAlchemy. Owners and staff seat guests,
take orders, send kitchen order tickets (KOTs), bill, take payments and keep
stock; a platform back office onboards businesses. This directory holds
TLA+ modules of its transactional core, the TLC configurations that check them
and machine-checked proofs about them.

All source paths below are relative to `src/app/`.

## 1. Inventory

What every part shares: a request runs in a session of its own (`db/deps.py`,
`db/session.py`; `autoflush=False`, `expire_on_commit=False`), under
PostgreSQL's READ COMMITTED. A handler loads rows, checks its guards in Python
on what it loaded, changes the objects and commits once; on an exception the
session closes without a commit. Only `next_outlet_counter` locks a row, no row
has a version column and few tables have unique constraints, so whatever two
requests do to the same rows they do without knowing of each other. Parts
interact by direct calls inside one handler and by the shared rows.

| Component | State | Operations that change it | Hard behaviour | What makes it correct |
|---|---|---|---|---|
| Daily counters (`services/owner/order_counters.py`) | one row per outlet, date, kind | `next_outlet_counter`, called by order, KOT, bill and invoice handlers | row lock, first insert of the day, rollback after drawing, midnight | unique, gap-free, serialised numbers; nobody waits for ever |
| Orders, bills, payments (`services/owner/order_service.py`, `order_pricing.py`, `invoice_service.py`) | order, lines, bills, payments | add / update / remove / cancel line, send KOT, update / cancel order, create or refresh bill, save bill, add payment, settle | handlers overlapping on rows read earlier, stale bills, partial payments | statuses of order and bills agree; settled means paid in full at the right price; invoice numbers unique; closed orders stay closed |
| Seating and table time (`order_service.py`, `venue_service.py`) | areas, tables, the order's table, its time session | create order, transfer, area and table CRUD, start / end / clear / exclude time | two orders for one table, table deleted under an order, rates edited during a session | one open order per table; the columns of a session agree, whatever came before; a timed table has a rate |
| Kitchen and stock (`inventory_service.py`) | items, links, recipes, ledger | send KOT, cancel line, adjust, daily stock, bulk, BOM | check-then-deduct, restoration, edits of sent lines | ledger adds up to the stock; stock comes back once |
| Purchases (`purchase_service.py`) | vendor bills, lines, payments | create, stock in, pay, delete; edit of the header texts | stock taken back after it was used, overlapping payments | paid never exceeds the total; the ledger counts every bill once |
| Business day, refunds (`day_close_service.py`, `refund_service.py`) | day row, cash movements, refunds | open, move cash, close, reopen, refund | payments before and after the count, two refunds at once, midnight | a closed day adds up; refunds within the bill |
| Discounts and tax (`discount_policy.py`, `tax_engine.py`, `tax_service.py`) | tax rules | rule CRUD, switching all on or off; pure computation | rounding part by part, inclusive and exclusive rates, rules edited under an open bill | the parts add up; one GST rate; discounts within the cap |
| Customers (`customer_service.py`) | customers, statistics, the order's link | link on order and settlement, create, renumber, delete, backfill; refresh on settlement and refund | numbers typed in several forms, statistics recomputed from a snapshot | one customer per number; statistics match the settled bills |
| Staff, access (`staff_permission_service.py`, `permissions.py`, `access.py`) | one row per permission of a staff login | save the ticks of a receptionist | saves over older rows and older catalogues | what was ticked last decides; never what only an owner may do |
| Authentication (`owner/auth_service.py`, `platform/auth_service.py`) | passwords, reset tokens, failed attempts, lock | login, forgotten / reset / changed password, platform login | expiry, suspension while signed in, counting failures | a token sets one password; locks are earned; suspension runs out every session |
| Platform sales (`services/platform/*`) | businesses, outlets, logins, collections, expenditures, employees | onboard, edit, suspend, collect, spend, hire, block | several rows per handler, employees who change status while assigned and paid | venues and outlets agree; what is due is called; salaries only for employees |
| Settings (`business_settings_service.py`) | discount policy, manager PIN, profile | edit the policy, set the PIN | caps edited under an open bill | the cap at the time of the discount binds |
| Menu (`menu_service.py`, `menu_food_type.py`) | categories, dishes, sizes, toppings | CRUD, replacing sizes and toppings | repricing and deleting what open orders have on their lines | orders are billed as sold; a dish costs what the menu shows |
| Audit log (`audit_service.py`) | rows that are only added | written by other handlers | - | - |
| Reports (`*analytics*`, `territory_service.py`) | none | none: reads | - | - |
| Shell (`main.py`, `core`, `middleware`, `integrations`), migrations | - | - | - | - |

`PROJECT.json` lists them all under "components" with what is modelled, and
under "hazards" what is hard to test, each at its source line with the
properties that cover it or the reason why none does.

## 2. Modules

    NumberDispenser                  what daily numbering promises (abstract)
      ^ implemented by
    OutletCounters                   the row-locking implementation
    BillSettlement                   one order, its lines, bills and payments (extends TaxEngine)
    FloorPlan                        what seating promises (abstract)
      ^ implemented by
    TableSeating                     orders on tables, and edits of the tables
    TableTime                        the time session of an order, areas, rates
    KitchenStock                     lines, kitchen tickets and the stock they use
    Purchases                        vendor bills and the stock they bring in
    CustomerBook, BusinessDay
      ^ extended by
    OutletBooks                      settlements, refunds, customers, cash
    TaxEngine <- TaxRules, MenuCatalogue
      ^ extended by
    PricedOrder                      one order, priced and taxed, menu and rules edited
    SalesDesk <- StaffAccess
      ^ extended by
    Tenancy                          console, sales team, logins, permissions

Every module that runs has an instance `MC...` for TLC. Theorems are in the modules
`..._proofs`: OrderRows_proofs is about TableSeating and PricedOrder,
BillSettlement_proofs also about OutletCounters, and KitchenStock_proofs,
Purchases_proofs, TableTime_proofs, OutletBooks_proofs and Tenancy_proofs each about
the module they are named after. `Sums` holds the lemmas about sums over finite sets
that most of them use.

How a request is modelled follows from section 1. In the modules of the second
half (TableTime, Purchases, OutletBooks, Tenancy) it has two steps:

* its handler (`Prepare` and what calls it): all SELECTs and checks and the changes in memory. The
  request keeps the rows as it loaded them (`loaded`) and as it wants them (`new`);
* `Commit`: rows that are new in `new` are inserted; of the others, the columns
  where `new` differs from `loaded` overwrite what the rows hold by then (`Written`,
  `Merged`), as SQLAlchemy's unit of work does. Where the database refuses, the request
  fails as a whole: unique constraints (`BreaksUnique`), foreign keys and
  updates of deleted rows (`MissesRow`, `Fails`). Cascades are part of the commit.

A request that fails a check, raises or crashes before its commit has changed
nothing and is the same as one that was never made. BillSettlement, TableSeating
and KitchenStock split the reading in two as well, since their handlers read the
order and other rows in separate SELECTs and what lies between matters there.

In these four modules the variable `overlapped` says whether two requests were ever
under way at once. One run so covers both worlds: properties that hold however
requests overlap, and, after `~ overlapped =>`, those that hold one request at a time,
the world the handlers' checks are written for. `MaxRequests` bounds the requests of
a behaviour, `MaxOverlapped` those of one with overlaps.

### OutletCounters

Code: `next_outlet_counter`, with the transaction of the handler around it.

| Model | Code |
|---|---|
| `counter[k][d]` | committed `OutletCounter.value`; 0 means the row does not exist |
| `req[r].pc` | where a request's transaction is: before the `SELECT ... FOR UPDATE`, after it found nothing, holding a number, ended |
| `issued` | committed documents (orders, KOTs, bills, invoices) with their number |
| `Call` | the handler calls the function, which fixes `date.today()` |
| `LockRow` | the SELECT finds a row and locks it, `value += 1`, flush |
| `FindNoRow`, `InsertRow`, `InsertConflict` | no row visible; the INSERT succeeds, or hits the unique constraint once the other transaction has committed |
| `CommitNumber`, `Rollback` | the handler commits number and document together, or raises, or the process dies |
| `Midnight` | the server's date changes, also between a request's steps |

A lock is not a variable: row (k, d) is locked, or inserted and not committed,
exactly while some request on it is "holding" (`KeyFree`). PostgreSQL's rules
are the guards: FOR UPDATE waits for the lock and reads the new value; a row
inserted by another transaction and not committed is invisible to SELECT while
an INSERT with its key waits. A request numbers one document; a settling
handler draws "bill" and "invoice" numbers in different requests.

`NumberDispenser` has one action, `Issue`: the next number of a kind and day
goes to a request. `OutletCounters` implements it with `last <- counter`; only
`CommitNumber` is an `Issue` step, everything else stutters.

### BillSettlement

Code: the handlers of `order_service.py` on one order. State: `db`, the
committed rows (order status, type and table-time charge; per line status and
total; per bill status, discount, whether it holds a tax, grand total, paid,
invoice number), `serial`, the invoice counter, and `req`, what each worker is
doing.

Every handler is three steps, because what it knows can be outdated in two
ways. `Read` is its first SELECT, `Handle` the second SELECT with all checks
and changes in memory, `Commit` the write. Handlers of an order read the
order and its lines first and the bills second (`OrderFirst`); handlers of
a bill read the bill with its payments first and the order second
(`BillFirst`). `Commit` does what SQLAlchemy's unit of work does: it writes the
columns that differ from what was loaded over whatever the rows hold by then
(`MergedRows`), payments are rows that add up, and an UPDATE of a row deleted
meanwhile raises (`HitsDeletedRow`). A settling request draws its invoice
number under the counter's lock, which lasts to the commit, so the draw is
part of `Commit`; OutletCounters shows in detail why that is atomic.

| Action | Handler |
|---|---|
| `AddLine` | `add_line`, `add_open_line` |
| `UpdateLine`, `RemoveLine`, `CancelLine` | the handlers of these names |
| `SendKot` | `send_kot` (line statuses; tickets and stock are in KitchenStock) |
| `UpdateOrder` | `update_order`, which changes the type of the order, or starts, ends, clears or excludes the table time (any charge may result), and leaves the open bill as it is |
| `CreateOrRefreshBill` | `create_or_refresh_bill`, also reached by `save_order_bill` and `split_bill_preview` |
| `AddBillPayment`, `SettleBill` | the handlers of these names |
| `CancelOrder` | `cancel_order` |
| `Abort` | a refused check, a failed statement or a crash at any point before the commit |

`Spec` lets workers overlap. `SerialSpec` has the same actions, but a request
starts only when no other is under way; this is the world the handlers'
checks are written for, and what a test can reach.

Abstracted: money is a natural number; a discount is an amount (the clamping and
storing of the clamped value are kept). There is one rate of tax per order type
(`Rate`), added to the bills that are asked for with taxes and remembered by them
(`taxed`), and no request edits it: several rules together, and what editing them
does to a bill, are in PricedOrder. Tip and rounding to the rupee do not change the
order of steps and are left out. The two loads of lines that some handlers make
count as one. `get_*`, `list_*` change nothing. `bill_number` is the "bill" counter
of OutletCounters. `serial` is the invoice counter of one day. An invoice code is a
prefix and this number, without the date (`invoice_service.py:31`), so the printed
codes repeat every day: `InvoicesUnique` is about the invoices of one day.

### TableSeating

Code: the handlers of `order_service.py` that seat, move and close orders, next
to the edits of tables in `venue_service.py`. State: `place[t]` and `label[t]`, the
rows of `venue_tables`; `order[o]`, the columns `status`, `order_type`,
`venue_table_id` and `table_label_snapshot` of `pos_orders`; `req`, what each
worker is doing. Requests have the three steps of BillSettlement: `Read` loads
the order, `Handle` looks up the table and whether an open order holds it
(`_get_table`, `_open_order_for_table`) and changes the row in memory,
`Commit` writes the changed columns.

| Action | Handler |
|---|---|
| `CreateOrder` | `create_order`, dine-in with a table, otherwise with or without |
| `TransferTable` | `transfer_table` |
| `UpdateOrder` | `update_order`, its change of the order type |
| `CloseOrder` | `settle_bill`, with `_ensure_table_label_snapshot`; `add_bill_payment` when it settles, and `cancel_order`, without |
| `CreateTables` | `create_table`, `bulk_create_tables`, `create_area` with tables |
| `RenameTable` | `update_table` with a label |
| `DeleteTables` | `delete_table`; `delete_area` with all its tables |
| `Abort` | a refused check, a failed statement or a crash before the commit |

The database takes part with one rule: the foreign key of `venue_table_id`. A
table that is deleted is cleared from every order (`ON DELETE SET NULL`, part of
`DeleteTables`), and a commit that newly writes a table needs it to exist
(`Writable`). The edits of tables are one step each: they check nothing that
another request could change, and orders see them when they commit. In
`SerialSpec` the requests about orders do not overlap each other, but the edits
of tables come between any two of their steps.

`FloorPlan` has parties that sit down or move (`Place`), leave for good (`Leave`)
and lose a table that is taken away (`Remove`). It is implemented with
`seated` as the pairs of an open order and its table, and `gone` as the closed
orders; only `Commit` and `DeleteTables` are steps of it.

Abstracted: names are unique within an area only, and the tables of the model
may be of different areas; delivery counts as takeaway; capacities and rates
are left out; whether the bill allows settling is BillSettlement's matter, here
an open order may always be closed.

### KitchenStock

Code: `send_kot` and the line handlers of `order_service.py` with what they ask of
`inventory_service.py`, and that service's own handlers. State: `db`, the
committed rows (order status; per line status, order, dish, quantity; per item
whether it exists, `tracks_daily`, `stock_date`, `current_stock`; `qty_per_serve`
per dish and item); `ledger`, what the rows of `inventory_transactions` add up
to; `req`, what each worker is doing; and two dates, `day` of the server, by
which tickets are numbered, and `today` of the outlet, which daily stock follows.
Stock is an integer, in thousandths of the unit.

`Read` loads the order and its lines, `Handle` reads the stock and changes rows in
memory, `Commit` writes the changed columns and inserts the transactions. `send_kot`
has a step more: `CheckStock` is `assert_stock_for_lines`, `Deduct` is what follows
once the ticket number is drawn. From there to the commit the counter's row is
locked (`TicketNumberFree`), so a second ticket of the day finds the first
one's transactions (`Deducted`). The lines of a ticket are deducted in any order, and
the stock is rounded after each of them (`Left`).

| Action | Handler |
|---|---|
| `AddLine`, `AddOpenLine`, `UpdateLine`, `RemoveLine` | the handlers of these names; `add_line` with `check_stock_for_line` |
| `CheckStock`, `Deduct` | `send_kot` before and after the ticket number, with `deduct_for_order_lines` |
| `CancelLine` | `cancel_line` with `restore_for_order_line` |
| `CloseOrder` | `cancel_order` (every line cancelled, nothing given back), or a settlement |
| `SetDailyStock` | `set_daily_stock`; `bulk_set_daily_stock` is a sequence of them |
| `TrackMenuStock`, `AdjustStock` | the handlers of these names, with every reason |
| `CreateItem`, `UpdateItem`, `DeleteItem`, `LinkMenuItem`, `ReplaceRawBom` | edits of items and recipes, one step each: they base nothing on stock they read (`LinkMenuItem` with 0 is `unlink_menu_item`) |
| `Abort`, `ServerMidnight`, `OutletMidnight` | a refusal, failure or crash; the two clocks |

`ledger.sum` starts again when daily stock is set: the `daily_opening` transaction
records the new stock, not the difference. Abstracted: names, units, costs and
thresholds; the rows of tickets; `today_opening`, which is set together with
`stock_date`; deliveries, which are in Purchases.

### TableTime

Code: `_apply_time_session_patch` and its caller `update_order`, `transfer_table`, and
the handlers of `venue_service.py` that decide what a minute costs. State: `db`, the
committed rows of areas, tables (area, whether time-based, rate) and one order (its
table, start, end, minutes, rate, charge, whether it is excluded from time billing);
`req`; and the clock `now`, which ticks twice a minute so that a session can end
inside the minute it starts. Columns that are NULL are -1.

| Action | Handler |
|---|---|
| `CreateArea`, `UpdateArea`, `DeleteArea` | the handlers of these names, tables of a new area and the cascade included |
| `CreateTable`, `BulkCreateTables`, `UpdateTable`, `DeleteTable` | the handlers of these names |
| `UpdateOrder` | `update_order`: starts (`Running`), ends (`Ended`), clears (`Cleared`) or excludes (`Excluded`) the session, by any one or two fields of the payload |
| `TransferTable`, `CloseOrder` | the move to another table; settlement or cancellation |
| `Commit`, `Passes` | the commit with its cascades (`Cascaded`, `Fails`); time |

Abstracted: capacities, sort order and names (the latter are in TableSeating); the hours
between which a time-based table may be used are a flag (set or not), since the code
requires them but enforces them nowhere.

### Purchases

Code: `purchase_service.py`. State: per vendor bill its state, lines, total, `paid`,
payment status and whether it was stocked in; per material the stock. `rows` and
`ledger` are what the inserted payment rows and inventory transactions add up to, so two
requests that overlap both count there, while `paid` and `stock` are columns the
later one overwrites. `used` is a history of what the kitchen took.

| Action | Handler |
|---|---|
| `create_invoice` | with or without an initial payment and stock-in |
| `apply_stock`, `add_payment`, `delete_invoice` | the handlers of these names |
| `Consume` | the kitchen takes one unit; its own races are in KitchenStock |
| `Commit` | adds up rows, overwrites columns, fails for a bill deleted meanwhile (`MissesRow`) |

Abstracted: a bill's lines are the quantity it has of every material; names, numbers,
dates and notes, all `update_invoice` edits, are left out.

### OutletBooks

Code: `refund_service.py`, `day_close_service.py` (in BusinessDay), `customer_service.py`
(in CustomerBook) and the hooks by which `order_service.py` calls the latter. The two
modules hold operators that map the rows a session sees to the rows it writes;
OutletBooks runs them as requests. State: orders with one bill each (status, mobile
number, linked customer, refunded total), payments, refunds, customers with their
statistics, business days, cash movements, and the outlet's date `today`.

| Action | Handler |
|---|---|
| `update_order` | its change of the customer's number, with `sync_order_customer` |
| `Pay` | `add_bill_payment`, `settle_bill`; in full, it settles and calls `_on_bill_settled` |
| `Refunding` | `create_refund` |
| `CreateCustomer`, `UpdateCustomer`, `DeleteCustomer`, `Backfill` | the customer pages |
| `OpenDay`, `AddMovement`, `CloseDay` | `open_day` (also reopens), `add_cash_movement`, `close_day` |
| `Commit`, `Midnight` | the commit with unique and foreign keys; the date changes |

A mobile number is a subscriber's digits, typed with or without the country's prefix,
or too few digits to count as a number: what `normalize_phone` tells apart. Each order
has one bill, since several are BillSettlement's matter. Searches, insights and
segments, names and tags are left out.

### PricedOrder

Code: `tax_engine.py` (TaxEngine: pure functions, in paise and hundredths of a percent,
with the rounding of `money`; the rules
come as one sequence, and a call is about a set of its positions), `tax_service.py` (TaxRules), `menu_service.py` and
`menu_food_type.py` (MenuCatalogue), `discount_policy.py`, `business_settings_service.py`
and what `order_service.py` makes of them for one order. Requests run one at a time and
are one step each: the hard part here is not their overlap, which BillSettlement has,
but what an edit of the menu, the rules or the policy does to an order in progress.

| Action | Handler |
|---|---|
| `CreateCategory`, `UpdateCategory`, `DeleteCategory`, `CreateItem`, `UpdateItem`, `DeleteItem`, `ReplaceItemModifiers` | the handlers of these names; deletions detach order lines and tax rules |
| `ListRules` | `list_profiles`, which inserts missing GST slabs |
| `CreateRule`, `UpdateRule`, `DeleteRule`, `SetEnabled` | the tax page, with `_deactivate_other_gst` |
| `UpdatePolicy`, `SetManagerPin` | the settings page |
| `AddLine`, `AddOpenLine`, `UpdateLine`, `CancelLine` | as in BillSettlement, but with sizes, toppings and diet, and the refresh of the open bill |
| `RemoveLine` | `remove_line`, whose refresh still counts the line it removes |
| `UpdateTypeAndTime` | `update_order`, which may change the type of the order and its charge for table time and refreshes nothing; how a charge comes about is in TableTime |
| `CreateOrRefreshBill`, `SettleBill`, `PayInFull` | as there, with discount caps, taxes, tip and rounding |

`repriced`, `switched`, `asked`, `granted` and `beyond` are histories the properties need. `beyond`
is by how much the open bill is off: what the line that was removed when it was last computed
costs, and what table time became cheaper by since. The others say
since when a promise of the code applies. `granted` so begins when the bill of an order that
costs something is computed under a cap: what is asked for on one that costs nothing yet is 0 %
to `effective_discount_percent`, whatever it is, and is let through.

### Tenancy

Code: `services/platform/*` (SalesDesk), `owner/auth_service.py`,
`staff_permission_service.py`, `permissions.py` and `platform/auth_service.py`
(StaffAccess); Tenancy runs their operators as requests. State: per business and
outlet the status, the support contact, an owner's and a receptionist's login
(contact, password, whether it must change), permission rows; sales employees,
expenditures, subscription payments, reset tokens, failed logins and locks; `session`,
when the last access token of a login expires; the clock; and `past`, a history of what
committed requests did.

| Action | Handler |
|---|---|
| `Onboard`, `UpdateTenant` | `create_tenant`, `update_tenant` |
| `UpdateStatus`, `ReadOutlets` | `update_tenant_status`: its SELECT of the business; that of the outlets, with the change of both |
| `Collect` | `create_collection`; the calling list and the collections list are operators |
| `CreateEmployee`, `UpdateEmployee` | with `_sync_active_flag` and the order in which flag and status win |
| `Spend`, `Reassign`, `Unspend` | creating, updating, deleting an expenditure |
| `OwnerLogin`, `ForgotPassword`, `ResetPassword`, `ChangePassword` | the owner application; a login writes nothing, and looks at the status and issues its token in one instant |
| `SavePermissions` | `_replace_grants` for one outlet |
| `PlatformLogin` | right or wrong password, count and lock |
| `Commit`, `Passes` | unique contacts, codes and permission rows; time |

Abstracted: one outlet and two logins per business, as onboarding creates them; three of
the 23 permissions, one of each kind (staff start with it, staff may be given it, only
owners have it); e-mail address and mobile number are one contact, checked alike;
amounts of money, addresses and identity papers are left out, and hashes are equality.

## 3. Runs

| Run | Specification and bounds | Checks |
|---|---|---|
| `counters` | `FairCountersSpec`, 4 requests, 2 kinds, 2 days, no symmetry | `ImplementsDispenser`, `EveryCallEnds` |
| `bill_serial` | `SerialSpec`, 2 lines, 2 bills, amounts 1..2, discounts 0..1, charges 0..1, dine-in without tax and takeaway taxed 100 %, 8 requests | `TypeOK`, `BillsFollowOrder`, `SettledInFull`, `ClosedOrderFrozen`, `StaleOnlyByRemoveOrUpdate` |
| `bill_overlap` | `Spec`, 2 workers, 2 lines, 2 bills, amounts 1..2, no table time, no discount, the two order types and the tax of `bill_serial`, 6 requests | `SettledOrderHasSettledBill`, `InvoicesUnique` |
| `seating` | `SerialSpec`, 3 orders, 2 tables, 2 names, 1 worker | `OneOpenOrderPerTable`, `HistoryKeepsLabel`, `ImplementsFloorPlan` |
| `table_time` | `Spec`, 2 workers, 2 areas, 2 tables, rates 0 and 0.90 an hour, a duration of a minute, 1.5 minutes, 3 requests / 2 overlapped | `TypeOK`, `ChargeFitsSession`, `TimedFloorPriced` |
| `kitchen_serial` | `SerialSpec`, 2 orders, 2 lines, 1 dish, 1 item, quantities 1..2, recipe 0 or 0.010, stock up to 0.020, 2 outlet dates | `StockIsLedger`, `StockNotNegative`, `ReturnedOnce`, `ClosedOrdersTakeNothing` |
| `kitchen_overlap` | `Spec`, 2 workers, 1 order, 1 line, 1 dish, 1 item, stock up to 0.010, 2 server dates | `OneDeductionPerDay` |
| `kitchen_pending` | as `kitchen_serial`, quantity 1, 1 outlet date | `AddedLineFits`, violated |
| `purchases` | `Spec`, 2 workers, 2 bills, 1 material, quantities and prices 0..2, discounts 0..1, 5 requests / 4 overlapped | `TypeOK`, `PaidWithinTotal`, `LedgerCountsBillsOnce` |
| `books` | `Spec`, 2 workers, 2 orders with bills of 2, 2 customers, 1 phone, 2 days, amounts 1..2, 4 requests / 3 overlapped | `StatsExact`, `OneCustomerPerNumber`, `RefundsWithinBill`, `ClosedDayBalances` |
| `priced_order` | `PricingSpec`, 2 categories, 2 dishes, 2 lines, prices 0 and 1.01, table time 0 or 0.99, two sizes, one topping, 4 kinds of rules, 5 kinds of changes; at most 2 requests about the menu, 2 about taxes, 1 about the policy, 4 in all | `BilledHistoryKept`, `ShownPriceCharged`, `TaxesAddUp`, `OneGstRate`, `DiscountWithinCap`, `TaxedBillStaysTaxed` |
| `tenancy` | `Spec`, 2 workers, 2 businesses, 1 employee, 4 contacts, 1 chosen password, 1 administrator, 2 attempts, lives of tokens and locks of 1, clock 0..1, dates 1 and 6 with a window of 3; per kind at most 2 (console), 3 (sales), 4 (access), 3 (administrators) requests, 4 in all / 2 overlapped | `TypeOK`, `SalesTeamInOrder`, `ListedDueIsCalled`, `SuspensionRunsOut`, `TokenSetsOnePassword`, `TicksDecide`, `LocksAreEarned` |

"n / m overlapped" are `MaxRequests` and `MaxOverlapped`: a behaviour has up to n requests one at a
time, or up to m of which some overlap.

Why the bounds are enough.

* Counters: every case is a matter of two requests on one key (one waits, one
  conflicts, one rolls back); four requests give two such pairs, two keys, and a third
  request that waits behind a conflict; two days let a request cross midnight
  between any two steps.
* Bills: eight requests in a row reach add, bill, pay a part, add, cancel a line,
  refresh, pay the rest, and an edit after closing; two bills are one open and one
  more, which only overlapping requests create. Six overlapping requests are an
  added line, a bill, and two pairs that collide. Two workers are enough for every
  pairwise collision; the theorems below need no bound.
  A takeaway taxed 100 % next to a dine-in order without tax makes
  a bill of either type differ from that of the other; table time, which changes what an order
  costs as the type does, is left to `bill_serial`.
* Seating: orders and tables are used once, so the state space is finite without a
  counter; three orders are one closed, one seated and one that wants the same table,
  two tables let an order move, and two names are enough for a name to change. One
  worker is enough where order requests do not overlap.
* Kitchen: lines and items are used once, so only stock could grow; `MaxStock` bounds it,
  and what transactions add up to, which lost updates would otherwise drive apart
  without end. Two lines want one item, on one order or on two, and the stock is
  enough for none, one or both; a recipe appears, disappears and reappears between
  ticket and cancellation. For overlapping tickets the hard case is one line wanted
  twice; two workers are enough, and the theorem needs no bound.
* Table time: three requests in a row start, move or exclude, and end a session, or
  change its rate in between; half minutes 0 to 3 have sessions of less than one, exactly
  one and more than one minute; a rate of 0 is the one that is set but bills nothing. Overlaps
  need two requests, because `Init` has an area with a table and an order on it already.
  The theorems need no bound.
* Purchases: five requests in a row create two bills, stock one in, pay it and delete it,
  with the kitchen taking goods in between; of four, two prepare what two others fight
  over.
* Books: four requests in a row reach link, settle, refund and renumber, delete or
  backfill, or open, move, close and reopen, with a payment in any place; three with an
  overlap are one to prepare and two to collide. Two orders and two customers let an order
  move between customers and two numbers be the same. One
  phone has three forms as typed, and that is where the two customers could come from.
* Priced orders: four requests are a rule or an edit of the menu, a line, a bill, and what
  changes afterwards. A price of 0 makes orders that cost nothing when they are billed; one of
  1.01 and rates of 5, 7.25, 10 and 12 % make every
  part of a tax end in a fraction of a paisa; the rules exclusive, inclusive and tax on
  tax; the sizes a default that is not the first. A charge of 0.99 differs from every line.
* Tenancy: three requests of a kind are wrong, wrong (a lock), and one more attempt, or hire,
  spend and block; four are suspend after a login, save and save again, or token, reset, reset again.
  Parts that share no row do not need more requests together.

Symmetry: identities of rows and workers are only compared for equality, and every CHOOSE
among them is on a set that its callers guard to have one element, so permuting
identities changes nothing. The `counters` run uses none because one of its properties is
liveness; `priced_order` permutes no dishes, since rules name one of them.
`CHECK_DEADLOCK FALSE`: a behaviour may stop when all requests have ended.

Fairness (`FairCountersSpec`): weak fairness of every request's next step. The event
loop resumes a coroutine whose statement returned, and PostgreSQL grants
a lock once it is free. Calls, failures and midnight are not fair: nobody
has to send a request. `EveryCallEnds` then needs that a lock holder commits or
rolls back; weak fairness is enough because a key's row appears once and for
all, and each of the finitely many requests holds it once. Only this function makes
anybody wait: no other handler locks, so there is no other liveness to state.

Every property has a mutant in `PROJECT.json`: a definition beside the original
that changes it as a plausible bug would (the comment says which). With the
mutant in place TLC refutes the property.

### What the violation shows

`kitchen_pending`: `check_stock_for_line` takes all pending units minus the need
of this order "after add" (`inventory_service.py:638`) for what other orders have
pending. The quantity being added is not pending yet, so it is subtracted
without having been counted, and a line that does not fit passes. Both orders'
tickets are then refused by `assert_stock_for_lines`. It needs no overlap.

### What the code does that no property forbids

No text of the repository promises otherwise, so these have no run; the properties above
are stated so that they hold beside them.

With requests that overlap:

* Two payments both see the balance as it was, both pass the checks
  (`order_service.py:1009`, `:1073`), and a bill is settled with more than its total paid.
* Two `create_or_refresh_bill` find no open bill and insert one each (`:859`);
  `_get_open_bill` (`scalar_one_or_none`) raises from then on.
* Two orders are opened on one table (`:310`, `:1295`); `_open_order_for_table` raises until
  one of them is closed.
* Payment rows of a vendor bill, or refund rows of a bill, may exceed the total they were
  checked against, while the column with their sum does not.
* Saves of a receptionist's permissions mix their ticks (`_replace_grants`); wrong platform
  passwords are counted once (`platform/auth_service.py:48`); a reset token used twice sets
  two passwords (`owner/auth_service.py:130`); an employee's flag and status come from
  different requests (`sales_employee_service.py:164`).

* `update_tenant_status` reads the business and then its outlets (`onboarding_service.py:468`).
  When another change of status commits in between, the business it holds is the old and the
  outlets are the new ones, and only what differs from what it loaded is written: an activation
  that began while the business was still active so leaves it suspended, with active outlets, for
  good. `TypeOK` of Tenancy relates the two only one request at a time.
* A login that saw its business active before a suspension committed issues its token after it.
  `OwnerLogin` is one instant, so this latency of a request is not counted in `SuspensionRunsOut`.

One request at a time:

* `remove_line` leaves the removed line on the open bill (`order_service.py:628`), and
  `update_order` refreshes it after no change of table time or type (`:375`), so that what the
  guest is shown may be wrong, by this line and this time and by the tax of the former type, until
  the next refresh. Paying and settling refresh first, so what is settled is right
  (`BilledHistoryKept`, `StaleOnlyByRemoveOrUpdate`, `SettledInFull`).
* `deduct_for_order_lines` and `restore_for_order_line` round the whole stock to hundredths
  (`inventory_service.py:677`, `:713`), although stock and recipes have thousandths. The
  ledger records the need, so they drift apart. The check of a ticket rounds once, the deduction
  after every line: of a stock of 0.015 two lines of 0.01 leave -0.01. `StockNotNegative` so asks for
  no less than zero of quantities in hundredths, which `kitchen_serial` uses, and for no less than
  -0.01 of others.
* Deleting a vendor bill whose goods were used stops the stock at zero while the ledger
  records the whole reversal (`purchase_service.py:407`): the ledger then says less
  than the stock, never more (`LedgerCountsBillsOnce`).
* `assert_day_open_for_billing` (`day_close_service.py:69`) is called by nothing: bills are
  settled on closed days.
* The rate at the end of a session is charged for all of it; a session that runs when the
  order is closed is charged nothing; one whose order moved to a table without time
  billing can only be cleared. A duration sent together with a start is ignored
  (`order_service.py:1613`).
* A bill that had no tax when it was last computed is refreshed without taxes ever after,
  also when a taxed dish is added (`order_service.py:1168`).
* On an order that costs nothing yet a discount of any percentage passes the caps
  (`discount_policy.py:20`) and stays in the bill when lines are added (`DiscountWithinCap`
  leaves it out).
* `set_enabled` activates all GST slabs at once (`OneGstRate` leaves it out).
* When prices include the taxes and five or more rules are active together, which takes that
  switch, `_split_amounts` (`tax_engine.py:214`) can leave its last rule less than nothing, for
  which `_allocate_chunk` prints nothing: the printed parts are then a paisa more than the tax. Five
  rules of 1 % on a dish of 0.53 make a tax of 0.03 and parts of 0.04. `PartsOfTax` allows half
  a paisa for every rule but one, and TaxesHold proves no more.
* A token issued before a suspension is good until it expires, and a venue that renewed stays
  on the calling list for its old payments (`collection_service.py:148`).

## 4. Proofs

Checked by TLAPS for every value of the constants that satisfies the named
assumptions (`LastDayAssumption`, `SettlementAssumption`, `SeatingAssumption`,
`KitchenAssumption`, `TableTimeAssumption`, `PurchaseAssumption`, `DayAssumption`,
`BookAssumption`, `BooksAssumption`, `DeskAssumption`, `AccessAssumption`, `TenancyAssumption`,
`PricingAssumption`). They say of what sort the constants are (amounts are positive, quantities
natural numbers, percentages at most 100, the rules and the changes of rules that may be asked
for and the requests for a bill are those the schemas let through), that marks such as `NoTable`
are not members of the sets they stand beside, and that sets whose rows are added up are finite.

**Sums.** The community modules define sums by a recursive function over subsets, so what
a sum is needs an induction. `SmallestSubset` takes it from the library's well-foundedness of
the strict subsets of a finite set: where a claim about sums fails, it fails for a smallest subset, and
one unfolding of the sum (`SumPicked`) refutes that one. So are proved that a sum is a
number, that it changes by what one element changes (`SumChangeOne`), that sums add up
(`SumPlus`), compare (`SumMonotone`), and are the same over renamed elements
(`SumReindex`). `Extremes` does the same for the least and the largest of a finite set.
Where code goes through a list, the model has a recursive function on 0..n (`TaxEngine`).
The induction theorem of the library takes a predicate, which no installed prover can
instantiate; `UpTo` says the same of a set that has 0 and, with i, i + 1: a number it
lacked would have a least one. `StepByStep` proves from it that the function that is defined
by its first value and a table of steps exists and obeys its equations, `Telescope` that one which grows by
what each step adds ends at the sum.

**BillSettlement_proofs, the counters.** `CountersTyped`, `NumbersUnique`, `NumbersGapFree`,
`NumbersSerialised`, `ConflictsHaveWinners`, `CountersImplementDispenser`. Uniqueness
is not inductive: the invariant adds that a holder's number is the successor of the committed
value and that a key has one holder (`HolderIsNext`), that committed numbers lie
in 1..counter, and that a request owns at most one document and only when its
phase is "committed". `CommitNumber` then adds a number above all others, and is an
`Issue` step of the dispenser.

**BillSettlement_proofs, the bills.** About overlapping requests (`Spec`, invariant
`OverlapInv`): `RowsTyped`, `SettledOrdersAreBilled`, `InvoiceNumbersUnique`,
`ClosedForGood`. The argument is about what a request in flight may write: a
request that has loaded an open order changes the order's status only together
with a bill's (lemma `HandleMove`), so whoever wrote the order's SETTLED wrote a
settled bill with it; a request loads a bill as settled only if it was.
Invoice numbers lie in 1..serial and only `Commit` draws one. `RowsTyped` needs that
subtotals are numbers, and that no discount exceeds what it is taken from.
About one request at a time (`SerialSpec`, invariant `SerialInv`):
`OrderAndBillsAgree`, `PaidToTheRupee`, `SerialsMatchBills`,
`ClosedIsHistory`. The strengthening says that while a request is under way
the database still holds what it read, so its commit applies its change to
exactly the rows it checked. `OthersRefreshTheBill` is an action property on top of it:
the rows a request is about to write show, on the open bill, what its order costs,
if they did when it read them, unless it removes a line or changes the table time or the type
(`TotalStored` says that a bill's total follows from the columns a refresh reads back); and a
commit writes just those rows.

**OrderRows_proofs, the tables.** About overlapping requests (`Spec`): `SeatingTyped`, and
`NoDanglingSeat`, which is inductive together with the types: what a commit
writes exists (`Writable`), and a deletion clears what pointed to it.
About one order request at a time (`SerialSpec`, invariant `SerialInv`):
`OneOrderPerTable`, `HistoryKept`, `SeatingImplementsFloorPlan`. The invariant
says of the request under way that the rows are as it read them, except that a
table may have been deleted since (`Fresh`); that a table it is about to write
has no other open order, which only a deletion can change and only for the
better (`Sound`); and that an order with a table has a snapshot of its name
(`Named`), so that history never has to ask the live table. `CommitRow`
states once what a commit makes of the row; the refinement splits on whether
that row is at a new table (`Place`), closed (`Leave`) or neither (a stutter).

**OrderRows_proofs, the prices.** About `PricingSpec`: `SoldIsBilled`, `MenuPriceCharged`,
`AtMostOneGst`, `CapKept`, `TaxesFollowLines`. `PricesInv` has a part about the rules, one
about the menu and one about the bill, and every request keeps each. Rules: a list
has one active GST slab at most after any insertion, change or removal
(`InsertedRules`, `OthersSwitchedOff`, `RemovedRules`), until all are switched on. Menu: sizes as
they are saved have one default, and the dish has its price (`NormalizedSizes`), which `LinePrice`
carries to what a line is charged. Bill: its subtotal
is that of the lines as they were sold and of the table time, no edit of the menu reaching them
(`SubtotalSame`); an open bill may be off, by `beyond`. Its discount is within the cap.
A discount that passes the check is within it up to the
rounding of the percentage and of the paisa (`MoneyNear`, `AllowedWithinCap`); a refresh
applies the same percentage, or the same amount, to an order that costs no less (`RefreshedRow`).

**OrderRows_proofs, the taxes.** `TaxesHold` is `TaxesAddUp` for rules in any number and prices of any
size: the parts of a tax add up to it, GST is near the exact one by every method, and rules for dishes
tax no others. `UpTo` and `StepByStep` unfold the engine's recursive functions: the running
charge of exclusive taxes (`ChargedStep`, `OnTopAddsUp`) and the tax of a bill, rule
after rule (`BillUnfolded`). Of the shares of an inclusive tax the last is what the others
leave, and each of those is within half a paisa of the exact one (`MoneyShare`, `RoundedSums`,
`SharesAddUp`). `PartsOfChunk` splits one rule's share, where the last
part is what is left. `ForwardNear`, `InclusiveNear` and `TaxOnTaxMore` compare the methods with
the exact tax; `DishBase` bounds what a dish rule is taken from by what the lines of its dishes
cost, and `BillTax` puts the rules together. Two facts join the invariant for it: without a bill there is
no discount, and no discount is larger than its subtotal, so that what is taxed is never negative; and
every rule is a whole row with columns of their types, whatever part of them a change names
(`ChangedRule`, `JoinedColumns`).
`PricesTyped` puts `TypesInv`, the columns nothing else speaks of, on top of that invariant. It says
that no total and no part of a tax on a bill is less than nothing: the central and the state part, both
rounded, exceed their exact ones by a paisa at most, and the integrated one, which is what they leave, is
more than nothing (`PartsOfChunk`).

**KitchenStock_proofs.** About overlapping requests (`Spec`): `DeductedOncePerDay`. That
tickets of a day deduct a line once is not inductive: the invariant adds that one
request holds the ticket counter of a day (`OneTicket`), and that what a holder is
about to take has no transaction of that day (`NotYetTaken`). `Deduct` establishes
the second when it skips lines already deducted; another `Commit` cannot
disturb it, because it is of another day or holds no counter. Across the server's
midnight the argument fails, and so does the property: two tickets numbered on
different days may deduct one line twice.
About one request at a time (`SerialSpec`): `CancelledGivesBackOnce`, `StockNeverNegative`,
`StockMatchesLedger`, `ClosedOrdersAtRest`. The invariant keeps books for what a request
is about to write as well as for the rows (`Booked`): per line and item nothing is taken
until it is on a ticket, and what was taken is given back whole or not at all, then only for a cancelled
line; per item the stock is what the transactions add up to. A ticket of several lines takes the sum of
their needs, which its check compared with the stock as a sum. Deducted line by line the stock is
rounded once for the first line and by nothing for the others, whose needs are hundredths, so a
ticket that passed the check leaves no less than -0.01 (`StockNeverNegative`), and
no less than zero where quantities are hundredths (`WholeHundredths`). `StockMatchesLedger` has that
condition as its hypothesis, because the code rounds to hundredths (section 3): without it the
property is false.

**TableTime_proofs.** `TimeInvHolds`, and from it `FloorTyped`, `TimedTablesPriced` and
`ChargesFit`. That a time-based table has a rate is checked by a handler on the row it
read, but written column by column: after a merge the flag may be of one request and the
rate of another. The invariant shows why it holds all the same: no request ever sets
a rate to NULL, in any row it loaded or is about to write (`RowOK`, `RowKept`), so a
rate once there stays. Cascades keep the foreign keys. One request at a time, the database
is as the request loaded it, so the session it writes is whole (`SessionOK`);
`MoneyNear` bounds what `money` makes of minutes times rate.

**Purchases_proofs.** `PurchasesTyped`, `NeverOverpaid`, `LedgerExact`. The total of a bill is written once,
when it is created, and whatever request writes `paid` writes no more than that
total: so no overlap of payments takes the column beyond it. One request at a time, `paid`,
the sum of the rows and the status agree in what it loaded and in what it writes. So does the ledger:
it is what the bills that exist and were stocked in brought, less what was used; a deletion takes back what
its bill brought, and the stock, which stops at zero, stays at or above it.

**OutletBooks_proofs.** `BooksInvHolds` and `CustomersDistinct`, however requests overlap:
numbers in customers' rows are normalized in every request's
loaded and new rows, so a merge has only normalized ones, which the unique constraint
keeps apart, and two numbers with the same digits are the same number. What a
request writes as a bill's refunded total is at most the bill, and merges take
one request's column or another's.
One request at a time (`SerialBooksHold`): `StatisticsExact`, `RefundsAddUp`, `ClosedDaysBalance`.
`Exact` says it of rows: every customer's visits and spend are the number and the net amount of
their settled bills, a bill's refunded total is the sum of its refunds, and a closed day
expects its float, the sales it counted and the cash moved on it. Identities no customer
has had yet count nothing, which is right for the customers who are to come; a lone request
is proved to turn exact rows into exact rows, handler by handler. Its commit leaves
just those rows, for which the merge of added rows must not lose any (`Grows`: payments,
refunds and movements are never taken back).

**Tenancy_proofs.** `TenancyInvHolds`; `TenancyTyped`, `SuspensionEnds`, `TicksDecideAll`,
`TokensSpentOnce`, `TeamInOrder`, `LocksEarned`, `DueIsCalled`: all that the run checks.
`Inv` says, however requests overlap, what a request may write: rows of their types,
tokens that expire within a bounded time, nothing but
what staff may have. `AloneInv` holds until two requests
overlap: an outlet has the status of its business, since a lone change of status read both as
they are; `Orderly` relates the rows to the history (`past`), and the rows a lone request is about
to write are orderly with the history it is about to leave. `CommittedAlone` says
that a lone commit makes the rows what the request meant them to be. `LocksEarned` is an
action property: `WrongCommits` shows that a lone wrong password cannot fail to
commit, so that its count is never lost. `DueIsCalled` takes from `Inv` that there are
finitely many payments, so that a venue has a latest one and the calling list an oldest
debt (`Extremes`): whatever the first is, it is one of those the second looks at.

Only model-checked: `EveryCallEnds`, which is liveness under fairness. Every safety invariant
and action property of the passing runs is a theorem.

`TypeOK` of KitchenStock and OutletBooks documents the state and is in no run: the runs' other
properties say more about it, and the invariants of the proofs hold the types these need.
`PricingTypeOK` is in no run either; `PricesTyped` proves it.

## 5. Plan

Done in the order of section 2. What is left to do:

1. the table's colour on the floor plan (free, running, saved), with `bill_saved_at` and the
   crash between the two commits of `save_order_bill`;
2. `apply_to_all_outlets` and the overview PIN, with several outlets per business.

## 6. Not modelled

Reports, analytics and territories only read. The shell (configuration, logging, health
checks, optional Redis and Kafka clients, the SMS stub) and the Alembic scripts hold no
logic of the domain; the constraints the scripts create are in the models that need them. Of the
components that are modelled, these are left out: the saved mark of bills and the
overview PIN (see the plan); descriptive fields everywhere and the handlers that edit nothing else
(`update_profile`, `update_invoice`); the audit log, whose rows are added by a
handler's own commit and read by no handler; searches, lists and response formatting; invoice HTML;
and the validation of single fields by Pydantic, except where a bound matters to a guard
(payments and amounts are positive).
