---------------------------- MODULE BillSettlement ----------------------------
(***************************************************************************)
(* One order with its lines, its bills and their payments, worked on by    *)
(* concurrent HTTP requests: the billing handlers of                       *)
(* app/services/owner/order_service.py.                                    *)
(*                                                                         *)
(* Every handler runs in a session of its own: it loads rows, checks its   *)
(* guards on what it loaded, changes the loaded rows in memory and commits *)
(* once. At READ COMMITTED every SELECT sees what is committed by then; no *)
(* handler locks the order, a line or a bill, and no row has a version. So *)
(* a handler takes three steps: Read, its first SELECT (the order with its *)
(* lines, or the bill with its payments); the remaining SELECT with the    *)
(* checks and changes in memory (one action per handler); and Commit,      *)
(* which writes the columns the handler changed over whatever the rows     *)
(* hold by then. Spec lets requests overlap; SerialSpec runs them one at a *)
(* time, which is what the handlers are written for.                       *)
(*                                                                         *)
(* Money is a natural number, and a discount is an amount. Of the taxes    *)
(* there is one rule for every type of order, which no request changes;    *)
(* what several rules come to, and what their edits do to a bill, is       *)
(* PricedOrder's. Tip and rounding, which leave the order of the handlers' *)
(* steps alone, are left out.                                              *)
(***************************************************************************)
EXTENDS TaxEngine

CONSTANTS Line,         \* identities of order lines
          Bill,         \* identities of bills
          Worker,       \* server tasks; each handles one request at a time
          Amount,       \* the totals a line may have and the sums one may pay
          Discount,     \* the discounts a cashier may grant
          Charge,       \* the table-time charges a session may lead to
          OrderType,    \* dine-in, takeaway and so on
          Rate,         \* Rate[t]: what orders of type t are taxed, 0 when no rule is for them
          MaxRequests   \* bound on the number of requests of a behaviour

\* A behaviour has room for MaxRequests lines and bills; so few identities do.
ASSUME SettlementAssumption ==
  /\ IsFiniteSet(Line)
  /\ Amount \subseteq Nat \ {0}
  /\ Discount \subseteq Nat /\ 0 \in Discount
  /\ Charge \subseteq Nat /\ 0 \in Charge
  /\ Rate \in [OrderType -> Nat]
  /\ MaxRequests \in Nat

VARIABLES db,        \* the committed rows
          serial,    \* the outlet's invoice counter of the day
          req,       \* what each worker is doing
          started    \* number of requests so far

vars == <<db, serial, req, started>>

OrderStatus == {"OPEN", "SETTLED", "CANCELLED"}

\* NONE: no such row yet; DELETED: the row is gone for good.
LineStatus == {"NONE", "PENDING_KOT", "IN_KOT", "CANCELLED", "DELETED"}

BillStatus == {"NONE", "OPEN", "SETTLED", "VOID"}

\* The columns of the rows a session sees. charge is the order's table time,
\* taxed whether a bill holds a tax (its method and percentage), paid the sum of
\* its payment rows; invoice is 0 until it is assigned.
Rows == [status : OrderStatus, type : OrderType, charge : Nat,
         lineStatus : [Line -> LineStatus], lineTotal : [Line -> Nat],
         billStatus : [Bill -> BillStatus], discount : [Bill -> Nat], taxed : [Bill -> BOOLEAN],
         grand : [Bill -> Nat], paid : [Bill -> Nat], invoice : [Bill -> Nat]]

Operation == {"add_line", "update_line", "remove_line", "cancel_line", "send_kot",
              "update_order", "create_or_refresh_bill", "add_bill_payment",
              "settle_bill", "cancel_order"}

Idle == [op |-> "idle"]

\* After the first SELECT: seen is what the database held then.
Reading == [op : {"reading"}, seen : Rows]

Busy == [op : Operation, loaded : Rows, new : Rows]

TypeOK ==
  /\ db \in Rows
  /\ serial \in Nat
  /\ req \in [Worker -> Busy \cup Reading \cup {Idle}]
  /\ started \in 0 .. MaxRequests

-----------------------------------------------------------------------------
(* Amounts *)

Billable(d) == {l \in Line : d.lineStatus[l] \in {"PENDING_KOT", "IN_KOT"}}

\* order_effective_subtotal: the lines that are not cancelled, and the time.
Subtotal(d) == SumFunctionOnSet(d.lineTotal, Billable(d)) + d.charge

\* Mutant of Clamped: a discount may exceed the subtotal.
ClampedNever(disc, sub) == disc

\* compute_bill_totals stores the discount clamped to the subtotal.
Clamped(disc, sub) == IF disc > sub THEN sub ELSE disc

\* Where no rule is for the order's type, a bill asked for with taxes has none.
Taxed(d, taxes) == taxes /\ Rate[d.type] > 0

\* The order less the discount and, if asked for, with what its type is taxed.
GrandTotal(d, disc, taxes) ==
  LET taxable == Subtotal(d) - Clamped(disc, Subtotal(d))
  IN taxable + IF Taxed(d, taxes) THEN money(taxable * Rate[d.type], Hundred) ELSE 0

OpenBills(d) == {b \in Bill : d.billStatus[b] = "OPEN"}

\* _apply_bill_amounts: bill b of d gets the amounts the rows of basis lead to.
ApplyAmounts(d, b, disc, taxes, basis) ==
  [d EXCEPT !.discount[b] = Clamped(disc, Subtotal(basis)),
            !.taxed[b] = Taxed(basis, taxes),
            !.grand[b] = GrandTotal(basis, disc, taxes)]

\* Mutant of Refresh: the stored total is taken as it is.
RefreshNot(d, b, basis) == d

\* _refresh_bill_amounts: recompute with the discount stored in the bill, and
\* taxes if it holds some.
Refresh(d, b, basis) == ApplyAmounts(d, b, d.discount[b], d.taxed[b], basis)

\* _maybe_refresh_open_bill. _get_open_bill raises on two open bills, so the
\* handlers that call it have AtMostOneOpen as a guard.
AtMostOneOpen(d) == \A b, c \in OpenBills(d) : b = c

\* Mutant of RefreshOpenBill: edits leave the open bill alone.
RefreshOpenBillNot(d, basis) == d

RefreshOpenBill(d, basis) ==
  IF OpenBills(d) = {} THEN d
  ELSE Refresh(d, CHOOSE b \in OpenBills(d) : TRUE, basis)

\* Mutant of OrderOpen: settled orders may still be edited.
OrderNotCancelled(d) == d.status # "CANCELLED"

OrderOpen(d) == d.status = "OPEN"

-----------------------------------------------------------------------------
(* Requests *)

IsIdle(w) == req[w].op = "idle"

IsReading(w) == req[w].op = "reading"

IsBusy(w) == ~ IsIdle(w) /\ ~ IsReading(w)

\* Identities another request has already given to a row it will insert.
LineReserved(l) == \E w \in Worker : IsBusy(w) /\ req[w].new.lineStatus[l] # "NONE"

BillReserved(b) == \E w \in Worker : IsBusy(w) /\ req[w].new.billStatus[b] # "NONE"

Read(w) ==
  /\ IsIdle(w)
  /\ started < MaxRequests
  /\ started' = started + 1
  /\ req' = [req EXCEPT ![w] = [op |-> "reading", seen |-> db]]
  /\ UNCHANGED <<db, serial>>

\* The order and its lines as in rows, its bills and payments as in from.
WithBills(rows, from) ==
  [status |-> rows.status, type |-> rows.type, charge |-> rows.charge,
   lineStatus |-> rows.lineStatus, lineTotal |-> rows.lineTotal,
   billStatus |-> from.billStatus, discount |-> from.discount, taxed |-> from.taxed,
   grand |-> from.grand, paid |-> from.paid, invoice |-> from.invoice]

\* What handlers of an order know: the order was read before its bills.
OrderFirst(w) == WithBills(req[w].seen, db)

\* What handlers of a bill know: the bill was read before the order.
BillFirst(w) == WithBills(db, req[w].seen)

\* Worker w has the rows o, passed the handler's checks and made them n.
Change(w, op, o, n) ==
  /\ req' = [req EXCEPT ![w] = [op |-> op, loaded |-> o, new |-> n]]
  /\ UNCHANGED <<db, serial, started>>

\* add_line and add_open_line: the row is flushed before the bill is refreshed.
AddLine(w) ==
  LET o == OrderFirst(w)
  IN /\ OrderOpen(o)
     /\ AtMostOneOpen(o)
     /\ \E l \in Line, amount \in Amount :
          /\ db.lineStatus[l] = "NONE" /\ ~ LineReserved(l)
          /\ LET n == [o EXCEPT !.lineStatus[l] = "PENDING_KOT", !.lineTotal[l] = amount]
             IN  Change(w, "add_line", o, RefreshOpenBill(n, n))

\* update_line, for quantity and open-item price: sent lines may change too.
UpdateLine(w) ==
  LET o == OrderFirst(w)
  IN /\ OrderOpen(o)
     /\ AtMostOneOpen(o)
     /\ \E l \in Billable(o), amount \in Amount :
          LET n == [o EXCEPT !.lineTotal[l] = amount]
          IN  Change(w, "update_line", o, RefreshOpenBill(n, n))

\* remove_line: the DELETE is not flushed (autoflush is off) when the open bill
\* is refreshed, so the refresh still counts the line.
RemoveLine(w) ==
  LET o == OrderFirst(w)
  IN /\ OrderOpen(o)
     /\ AtMostOneOpen(o)
     /\ \E l \in Line :
          /\ o.lineStatus[l] = "PENDING_KOT"
          /\ Change(w, "remove_line", o,
                    RefreshOpenBill([o EXCEPT !.lineStatus[l] = "DELETED"], o))

\* cancel_line; a line that is cancelled already is answered without a change.
CancelLine(w) ==
  LET o == OrderFirst(w)
  IN /\ OrderOpen(o)
     /\ AtMostOneOpen(o)
     /\ \E l \in Billable(o) :
          LET n == [o EXCEPT !.lineStatus[l] = "CANCELLED"]
          IN  Change(w, "cancel_line", o, RefreshOpenBill(n, n))

\* send_kot: all pending lines, or those the waiter selected.
SendKot(w) ==
  LET o == OrderFirst(w)
  IN /\ OrderOpen(o)
     /\ \E S \in SUBSET {l \in Line : o.lineStatus[l] = "PENDING_KOT"} :
          /\ S # {}
          /\ Change(w, "send_kot", o,
               [o EXCEPT !.lineStatus =
                  [l \in Line |-> IF l \in S THEN "IN_KOT" ELSE @[l]]])

\* update_order, where it changes the type of the order, or starts, ends, clears
\* or excludes its table time. The open bill is not refreshed.
UpdateOrder(w) ==
  LET o == OrderFirst(w)
  IN /\ OrderOpen(o)
     /\ \E type \in OrderType, c \in Charge :
          Change(w, "update_order", o, [o EXCEPT !.type = type, !.charge = c])

\* create_or_refresh_bill, also reached from save_order_bill and
\* split_bill_preview.
CreateOrRefreshBill(w) ==
  LET o == OrderFirst(w)
  IN /\ OrderOpen(o)
     /\ Billable(o) # {} \/ o.charge > 0
     /\ AtMostOneOpen(o)
     /\ \E b \in Bill, disc \in Discount, taxes \in BOOLEAN :
          /\ IF OpenBills(o) = {}
             THEN o.billStatus[b] = "NONE" /\ ~ BillReserved(b)
             ELSE b \in OpenBills(o)
          /\ Change(w, "create_or_refresh_bill", o,
               ApplyAmounts([o EXCEPT !.billStatus[b] = "OPEN"], b, disc, taxes, o))

\* Mutant of Settle: the bill's status is not written.
SettleOrderOnly(d, b) == [d EXCEPT !.status = "SETTLED"]

Settle(d, b) ==
  [d EXCEPT !.status = "SETTLED", !.billStatus[b] = "SETTLED"]

\* add_bill_payment: refresh, refuse more than the balance, settle at zero.
AddBillPayment(w) ==
  LET o == BillFirst(w)
  IN /\ OrderOpen(o)
     /\ \E b \in OpenBills(o), amount \in Amount :
          LET fresh == Refresh(o, b, o)
              paidUp == [fresh EXCEPT !.paid[b] = @ + amount]
          IN /\ paidUp.paid[b] <= fresh.grand[b]
             /\ Change(w, "add_bill_payment", o,
                       IF paidUp.paid[b] = fresh.grand[b] THEN Settle(paidUp, b)
                       ELSE paidUp)

\* settle_bill: the discount and the taxes of the request replace the bill's, and
\* the new payments (none, or some that add up to an amount) must close the balance.
SettleBill(w) ==
  LET o == BillFirst(w)
  IN /\ OrderOpen(o)
     /\ \E b \in OpenBills(o), disc \in Discount, taxes \in BOOLEAN,
           amount \in Amount \cup {0} :
          LET fresh == ApplyAmounts(o, b, disc, taxes, o)
              paidUp == [fresh EXCEPT !.paid[b] = @ + amount]
          IN /\ paidUp.paid[b] = fresh.grand[b]
             /\ Change(w, "settle_bill", o, Settle(paidUp, b))

\* Mutant of CancelOrder: the open bill survives.
CancelOrderOnly(w) ==
  LET o == OrderFirst(w)
  IN /\ OrderOpen(o)
     /\ Change(w, "cancel_order", o, [o EXCEPT !.status = "CANCELLED"])

\* cancel_order: every line and the order become CANCELLED, open bills VOID.
CancelOrder(w) ==
  LET o == OrderFirst(w)
  IN /\ OrderOpen(o)
     /\ Change(w, "cancel_order", o,
          [o EXCEPT !.status = "CANCELLED",
                    !.lineStatus = [l \in Line |->
                       IF l \in Billable(o) THEN "CANCELLED" ELSE @[l]],
                    !.billStatus = [b \in Bill |->
                       IF b \in OpenBills(o) THEN "VOID" ELSE @[b]]])

\* A request that has read its first rows reads the rest and decides.
Handle(w) ==
  /\ IsReading(w)
  /\ \/ AddLine(w) \/ UpdateLine(w) \/ RemoveLine(w) \/ CancelLine(w)
     \/ SendKot(w) \/ UpdateOrder(w) \/ CreateOrRefreshBill(w)
     \/ AddBillPayment(w) \/ SettleBill(w) \/ CancelOrder(w)

-----------------------------------------------------------------------------
(* The unit of work: only the columns a session changed are written *)

Written(current, loaded, new) == IF new = loaded THEN current ELSE new

WrittenColumn(current, loaded, new) ==
  [x \in DOMAIN current |-> Written(current[x], loaded[x], new[x])]

\* Bills this request numbers: assign_invoice_on_settle skips a numbered one.
Numbered(r) ==
  {b \in Bill : /\ r.new.billStatus[b] = "SETTLED"
                /\ r.loaded.billStatus[b] # "SETTLED"
                /\ r.loaded.invoice[b] = 0}

\* Payments are inserted rows: they add to what others have inserted.
MergedRows(r) ==
  [status |-> Written(db.status, r.loaded.status, r.new.status),
   type |-> Written(db.type, r.loaded.type, r.new.type),
   charge |-> Written(db.charge, r.loaded.charge, r.new.charge),
   lineStatus |-> WrittenColumn(db.lineStatus, r.loaded.lineStatus, r.new.lineStatus),
   lineTotal |-> WrittenColumn(db.lineTotal, r.loaded.lineTotal, r.new.lineTotal),
   billStatus |-> WrittenColumn(db.billStatus, r.loaded.billStatus, r.new.billStatus),
   discount |-> WrittenColumn(db.discount, r.loaded.discount, r.new.discount),
   taxed |-> WrittenColumn(db.taxed, r.loaded.taxed, r.new.taxed),
   grand |-> WrittenColumn(db.grand, r.loaded.grand, r.new.grand),
   paid |-> [b \in Bill |-> db.paid[b] + (r.new.paid[b] - r.loaded.paid[b])],
   invoice |-> [b \in Bill |-> IF b \in Numbered(r) THEN serial + 1 ELSE db.invoice[b]]]

\* An UPDATE of a row that was deleted meanwhile matches no row and raises.
HitsDeletedRow(r) ==
  \E l \in Line :
    /\ db.lineStatus[l] = "DELETED"
    /\ r.new.lineStatus[l] # "DELETED"
    /\ \/ r.new.lineStatus[l] # r.loaded.lineStatus[l]
       \/ r.new.lineTotal[l] # r.loaded.lineTotal[l]

\* Mutant of Commit: the drawn number is not saved.
CommitForgetsSerial(w) ==
  /\ IsBusy(w)
  /\ ~ HitsDeletedRow(req[w])
  /\ db' = MergedRows(req[w])
  /\ req' = [req EXCEPT ![w] = Idle]
  /\ UNCHANGED <<serial, started>>

\* The commit of a handler. A settling one has drawn the next invoice number
\* under the counter's row lock, which it holds to the commit.
Commit(w) ==
  /\ IsBusy(w)
  /\ ~ HitsDeletedRow(req[w])
  /\ db' = MergedRows(req[w])
  /\ serial' = IF Numbered(req[w]) = {} THEN serial ELSE serial + 1
  /\ req' = [req EXCEPT ![w] = Idle]
  /\ UNCHANGED started

\* A check rejects the request, a statement fails or the process dies: nothing
\* is written.
Abort(w) ==
  /\ ~ IsIdle(w)
  /\ req' = [req EXCEPT ![w] = Idle]
  /\ UNCHANGED <<db, serial, started>>

Init ==
  /\ \E type \in OrderType :
       db = [status |-> "OPEN", type |-> type, charge |-> 0,
             lineStatus |-> [l \in Line |-> "NONE"], lineTotal |-> [l \in Line |-> 0],
             billStatus |-> [b \in Bill |-> "NONE"], discount |-> [b \in Bill |-> 0],
             taxed |-> [b \in Bill |-> FALSE], grand |-> [b \in Bill |-> 0],
             paid |-> [b \in Bill |-> 0], invoice |-> [b \in Bill |-> 0]]
  /\ serial = 0
  /\ req = [w \in Worker |-> Idle]
  /\ started = 0

Next == \E w \in Worker : Read(w) \/ Handle(w) \/ Commit(w) \/ Abort(w)

Spec == Init /\ [][Next]_vars

\* No request starts while another one is under way.
SerialNext ==
  \E w \in Worker :
    \/ (\A v \in Worker : IsIdle(v)) /\ Read(w)
    \/ Handle(w)
    \/ Commit(w)
    \/ Abort(w)

SerialSpec == Init /\ [][SerialNext]_vars

-----------------------------------------------------------------------------
(* Properties of serial requests *)

SettledBills == {b \in Bill : db.billStatus[b] = "SETTLED"}

\* The order and its bills tell the same story: an open order has at most one
\* open bill and no settled one, a settled order exactly one settled bill and
\* none open, a cancelled order neither (create_or_refresh_bill, settle_bill,
\* add_bill_payment, cancel_order).
BillsFollowOrder ==
  /\ db.status = "OPEN" => AtMostOneOpen(db) /\ SettledBills = {}
  /\ db.status # "OPEN" => OpenBills(db) = {}
  /\ db.status = "SETTLED" => \E b \in Bill : SettledBills = {b}
  /\ db.status = "CANCELLED" => SettledBills = {}

\* A settled bill was paid exactly, and it charges what the order's lines and
\* table time cost and what an order of its type is taxed, however the order was
\* edited, discounted or partly paid on the way and however stale the bill had
\* become.
SettledInFull ==
  \A b \in SettledBills :
    /\ db.paid[b] = db.grand[b]
    /\ db.grand[b] = GrandTotal(db, db.discount[b], db.taxed[b])

\* Once an order is settled or cancelled, no request changes it any more: its
\* lines, bills, payments and invoice number are history.
ClosedOrderFrozen == [][db.status # "OPEN" => UNCHANGED <<db, serial>>]_vars

\* No invoice number is drawn in vain: the counter stands at the number of
\* settled bills.
NoSerialBurnt == serial = Cardinality(SettledBills)

\* The open bill shows what the order costs now.
BillFresh ==
  \A b \in OpenBills(db) : db.grand[b] = GrandTotal(db, db.discount[b], db.taxed[b])

\* Of all requests about the order, only one that removes a pending line and one
\* that changes the table time or the type of the order leave the open bill showing
\* an outdated total; every other handler that touches what the order costs
\* refreshes the bill in the same commit. (Edits of the tax rules, which are not
\* requests about the order, leave it outdated as well.)
StaleOnlyByRemoveOrUpdate ==
  [][BillFresh /\ ~ BillFresh' =>
       \E w \in Worker : /\ req'[w] # req[w]
                         /\ req[w].op \in {"remove_line", "update_order"}]_vars

-----------------------------------------------------------------------------
(* Properties of overlapping requests *)

\* Whatever overlaps, an order that is settled in the end has a settled bill:
\* whoever wrote the order's status last wrote the bill's with it.
SettledOrderHasSettledBill ==
  db.status = "SETTLED" => SettledBills # {}

\* Every settled bill carries an invoice number that no other bill of the day
\* carries, even if two requests settled it at the same time.
InvoicesUnique ==
  /\ \A b \in SettledBills : db.invoice[b] \in 1 .. serial
  /\ \A b, c \in Bill : db.invoice[b] = db.invoice[c] /\ b # c => db.invoice[b] = 0

\* A closed order is never open again, and a bill that was numbered as an
\* invoice stays numbered, although late commits may overwrite other columns.
ClosedStaysClosed ==
  [][/\ db.status # "OPEN" => db'.status # "OPEN"
     /\ \A b \in Bill : db.invoice[b] # 0 => db'.invoice[b] >= db.invoice[b]]_vars

=============================================================================
