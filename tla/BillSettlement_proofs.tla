------------------------ MODULE BillSettlement_proofs ------------------------
(***************************************************************************)
(* For any lines, bills, workers and amounts:                              *)
(*  - requests that run one at a time keep the order and its bills         *)
(*    consistent, and a settled bill is paid exactly;                      *)
(*  - requests that overlap in any way still never leave a settled order   *)
(*    without a settled bill, and never share an invoice number.           *)
(* Both rest on StatusMove, which bounds what any handler does to the      *)
(* statuses of the rows it loaded.                                         *)
(* For any requests, kinds and days, the counters that number orders,      *)
(* tickets, bills and invoices are unique and gap-free and implement       *)
(* NumberDispenser.                                                        *)
(***************************************************************************)
EXTENDS BillSettlement, OutletCounters, Integers, Sums, TLAPS

Columns == {"status", "type", "charge", "lineStatus", "lineTotal", "billStatus",
            "discount", "taxed", "grand", "paid", "invoice"}

\* discount and grand hold sums over the lines; that they are numbers (RowsTyped)
\* is not needed for what the statuses do.
Tables(d) ==
  /\ DOMAIN d = Columns
  /\ DOMAIN d.lineStatus = Line
  /\ d.lineTotal \in [Line -> Nat]
  /\ DOMAIN d.billStatus = Bill
  /\ DOMAIN d.discount = Bill
  /\ DOMAIN d.taxed = Bill
  /\ DOMAIN d.grand = Bill
  /\ d.paid \in [Bill -> Int]
  /\ d.invoice \in [Bill -> Nat]

Changed(o, n, b) == n.billStatus[b] # o.billStatus[b]

\* What any handler may do to the statuses of the rows o it loaded: create one
\* bill when none is open, settle one open bill together with the order, or
\* void the open bills together with cancelling the order.
StatusMove(o, n) ==
  /\ o.status = "OPEN"
  /\ n.status \in OrderStatus
  /\ \A b \in Bill : Changed(o, n, b) =>
       \/ /\ n.status = "OPEN" /\ OpenBills(o) = {}
          /\ o.billStatus[b] = "NONE" /\ n.billStatus[b] = "OPEN"
       \/ /\ n.status = "SETTLED"
          /\ o.billStatus[b] = "OPEN" /\ n.billStatus[b] = "SETTLED"
       \/ /\ n.status = "CANCELLED"
          /\ o.billStatus[b] = "OPEN" /\ n.billStatus[b] = "VOID"
  /\ n.status = "SETTLED" => \E b \in Bill : Changed(o, n, b)
  /\ n.status = "CANCELLED" => OpenBills(n) = {}
  /\ n.status # "CANCELLED" =>
       \A b, c \in Bill : Changed(o, n, b) /\ Changed(o, n, c) => b = c

\* A settled bill is paid exactly, for what the order costs.
PaidExactly(d, b) ==
  /\ d.paid[b] = d.grand[b]
  /\ d.grand[b] = GrandTotal(d, d.discount[b], d.taxed[b])

\* A bill that a handler settles is paid exactly.
MoneyMove(o, n) ==
  \A b \in Bill : Changed(o, n, b) /\ n.status = "SETTLED" => PaidExactly(n, b)

\* A bill that a handler inserts is nowhere else.
FreshBills(o, n) ==
  \A b \in Bill : Changed(o, n, b) /\ o.billStatus[b] = "NONE" =>
    db.billStatus[b] = "NONE" /\ ~ BillReserved(b)

Move(o, n) ==
  Tables(n) /\ StatusMove(o, n) /\ MoneyMove(o, n) /\ FreshBills(o, n)

\* e is d but for the amounts of the bills.
Kept(d, e) ==
  /\ Tables(e)
  /\ e.status = d.status
  /\ e.type = d.type
  /\ e.charge = d.charge
  /\ e.lineStatus = d.lineStatus
  /\ e.lineTotal = d.lineTotal
  /\ e.billStatus = d.billStatus
  /\ e.paid = d.paid
  /\ e.invoice = d.invoice

-----------------------------------------------------------------------------
(* Lemmas about amounts *)

\* Clamping a clamped discount again changes nothing.
LEMMA ClampedTwice ==
  ASSUME NEW disc, NEW sub
  PROVE  Clamped(Clamped(disc, sub), sub) = Clamped(disc, sub)
  BY DEF Clamped

\* The cost of an order depends on its lines and its table time alone.
LEMMA SubtotalSame ==
  ASSUME NEW d, NEW e,
         \A l \in Line : e.lineStatus[l] = d.lineStatus[l],
         e.lineTotal = d.lineTotal, e.charge = d.charge
  PROVE  Subtotal(e) = Subtotal(d)
<1>1. Billable(e) = Billable(d)
  BY DEF Billable
<1> QED
  BY <1>1 DEF Subtotal

\* What is due depends on the order's type besides.
LEMMA TotalSame ==
  ASSUME NEW d, NEW e, NEW disc, NEW taxes, e.type = d.type, Subtotal(e) = Subtotal(d)
  PROVE  GrandTotal(e, disc, taxes) = GrandTotal(d, disc, taxes)
  BY DEF GrandTotal, Taxed

\* The discount and the taxes that a bill stores lead to the total that those asked
\* for led to.
LEMMA TotalStored ==
  ASSUME NEW d, NEW e, NEW disc, NEW taxes, e.type = d.type, Subtotal(e) = Subtotal(d),
         NEW kept, NEW held, kept = Clamped(disc, Subtotal(d)), held = Taxed(d, taxes)
  PROVE  GrandTotal(e, kept, held) = GrandTotal(d, disc, taxes)
<1>1. Taxed(e, held) = Taxed(d, taxes)
  BY DEF Taxed
<1>2. Clamped(kept, Subtotal(d)) = Clamped(disc, Subtotal(d))
  BY ClampedTwice
<1> QED
  BY <1>1, <1>2 DEF GrandTotal

\* Applying amounts to a bill touches its discount, its taxes and its total only.
LEMMA ApplyAmountsRows ==
  ASSUME NEW d, Tables(d), NEW b, NEW disc, NEW taxes, NEW basis
  PROVE  LET e == ApplyAmounts(d, b, disc, taxes, basis)
         IN /\ Kept(d, e)
            /\ b \in Bill => /\ e.discount[b] = Clamped(disc, Subtotal(basis))
                             /\ e.taxed[b] = Taxed(basis, taxes)
                             /\ e.grand[b] = GrandTotal(basis, disc, taxes)
  BY DEF Kept, Tables, Columns, ApplyAmounts

\* So does refreshing the open bill.
LEMMA RefreshOpenBillRows ==
  ASSUME NEW d, Tables(d), NEW basis
  PROVE  Kept(d, RefreshOpenBill(d, basis))
<1>1. CASE OpenBills(d) = {}
  BY <1>1 DEF RefreshOpenBill, Kept
<1>2. CASE OpenBills(d) # {}
  BY <1>2, ApplyAmountsRows DEF RefreshOpenBill, Refresh
<1> QED
  BY <1>1, <1>2

-----------------------------------------------------------------------------
(* What each handler does to the rows o it loaded *)

\* A handler that keeps the statuses of the order and its bills makes a Move.
LEMMA QuietMove ==
  ASSUME NEW o, o.status = "OPEN",
         NEW n, Tables(n), n.status = o.status, n.billStatus = o.billStatus
  PROVE  Move(o, n)
  BY DEF Move, StatusMove, MoneyMove, FreshBills, Changed, OrderStatus

\* So does one that refreshes the open bill afterwards.
LEMMA RefreshedMove ==
  ASSUME NEW o, o.status = "OPEN",
         NEW n, Tables(n), n.status = o.status, n.billStatus = o.billStatus, NEW basis
  PROVE  Move(o, RefreshOpenBill(n, basis))
<1> DEFINE e == RefreshOpenBill(n, basis)
<1>1. Kept(n, e)
  BY RefreshOpenBillRows
<1> HIDE DEF e
<1>2. Tables(e) /\ e.status = o.status /\ e.billStatus = o.billStatus
  BY <1>1 DEF Kept
<1>3. Move(o, e)
  BY <1>2, QuietMove
<1> QED
  BY <1>3 DEF e

\* The handlers that edit lines, the table time or the order's type.
LEMMA EditMoves ==
  ASSUME NEW w \in Worker, Tables(OrderFirst(w)),
         \/ AddLine(w) \/ UpdateLine(w) \/ RemoveLine(w) \/ CancelLine(w)
         \/ SendKot(w) \/ UpdateOrder(w)
  PROVE  \E op \in Operation : \E n : Change(w, op, OrderFirst(w), n) /\ Move(OrderFirst(w), n)
<1> DEFINE o == OrderFirst(w)
<1>0. Tables(o)
  OBVIOUS
<1> HIDE DEF o
<1>1. CASE AddLine(w)
  <2>1. PICK l \in Line, amount \in Amount :
          LET n == [o EXCEPT !.lineStatus[l] = "PENDING_KOT", !.lineTotal[l] = amount]
          IN  Change(w, "add_line", o, RefreshOpenBill(n, n))
    BY <1>1 DEF AddLine, o
  <2> DEFINE n == [o EXCEPT !.lineStatus[l] = "PENDING_KOT", !.lineTotal[l] = amount]
  <2>2. Tables(n) /\ n.status = o.status /\ n.billStatus = o.billStatus
    BY <1>0, SettlementAssumption DEF Tables, Columns
  <2> HIDE DEF n
  <2>3. o.status = "OPEN"
    BY <1>1 DEF AddLine, OrderOpen, o
  <2>4. Move(o, RefreshOpenBill(n, n))
    BY <2>2, <2>3, RefreshedMove
  <2> QED
    BY <2>1, <2>4 DEF Operation, o, n
<1>2. CASE UpdateLine(w)
  <2>1. PICK l \in Billable(o), amount \in Amount :
          LET n == [o EXCEPT !.lineTotal[l] = amount]
          IN  Change(w, "update_line", o, RefreshOpenBill(n, n))
    BY <1>2 DEF UpdateLine, o
  <2> DEFINE n == [o EXCEPT !.lineTotal[l] = amount]
  <2>2. Tables(n) /\ n.status = o.status /\ n.billStatus = o.billStatus
    BY <1>0, SettlementAssumption DEF Tables, Columns
  <2> HIDE DEF n
  <2>3. o.status = "OPEN"
    BY <1>2 DEF UpdateLine, OrderOpen, o
  <2>4. Move(o, RefreshOpenBill(n, n))
    BY <2>2, <2>3, RefreshedMove
  <2> QED
    BY <2>1, <2>4 DEF Operation, o, n
<1>3. CASE RemoveLine(w)
  <2>1. PICK l \in Line :
          Change(w, "remove_line", o,
                 RefreshOpenBill([o EXCEPT !.lineStatus[l] = "DELETED"], o))
    BY <1>3 DEF RemoveLine, o
  <2> DEFINE n == [o EXCEPT !.lineStatus[l] = "DELETED"]
  <2>2. Tables(n) /\ n.status = o.status /\ n.billStatus = o.billStatus
    BY <1>0 DEF Tables, Columns
  <2> HIDE DEF n
  <2>3. o.status = "OPEN"
    BY <1>3 DEF RemoveLine, OrderOpen, o
  <2>4. Move(o, RefreshOpenBill(n, o))
    BY <2>2, <2>3, RefreshedMove
  <2> QED
    BY <2>1, <2>4 DEF Operation, o, n
<1>4. CASE CancelLine(w)
  <2>1. PICK l \in Billable(o) :
          LET n == [o EXCEPT !.lineStatus[l] = "CANCELLED"]
          IN  Change(w, "cancel_line", o, RefreshOpenBill(n, n))
    BY <1>4 DEF CancelLine, o
  <2> DEFINE n == [o EXCEPT !.lineStatus[l] = "CANCELLED"]
  <2>2. Tables(n) /\ n.status = o.status /\ n.billStatus = o.billStatus
    BY <1>0 DEF Tables, Columns
  <2> HIDE DEF n
  <2>3. o.status = "OPEN"
    BY <1>4 DEF CancelLine, OrderOpen, o
  <2>4. Move(o, RefreshOpenBill(n, n))
    BY <2>2, <2>3, RefreshedMove
  <2> QED
    BY <2>1, <2>4 DEF Operation, o, n
<1>5. CASE SendKot(w)
  <2>1. PICK S : Change(w, "send_kot", o,
                   [o EXCEPT !.lineStatus =
                      [l \in Line |-> IF l \in S THEN "IN_KOT" ELSE @[l]]])
    BY <1>5 DEF SendKot, o
  <2> DEFINE n == [o EXCEPT !.lineStatus =
                     [l \in Line |-> IF l \in S THEN "IN_KOT" ELSE @[l]]]
  <2>2. Tables(n) /\ n.status = o.status /\ n.billStatus = o.billStatus
    BY <1>0 DEF Tables, Columns
  <2> HIDE DEF n
  <2>3. o.status = "OPEN"
    BY <1>5 DEF SendKot, OrderOpen, o
  <2>4. Move(o, n)
    BY <2>2, <2>3, QuietMove
  <2> QED
    BY <2>1, <2>4 DEF Operation, o, n
<1>6. CASE UpdateOrder(w)
  <2>1. PICK type \in OrderType, c \in Charge :
          Change(w, "update_order", o, [o EXCEPT !.type = type, !.charge = c])
    BY <1>6 DEF UpdateOrder, o
  <2> DEFINE n == [o EXCEPT !.type = type, !.charge = c]
  <2>2. Tables(n) /\ n.status = o.status /\ n.billStatus = o.billStatus
    BY <1>0 DEF Tables, Columns
  <2> HIDE DEF n
  <2>3. o.status = "OPEN"
    BY <1>6 DEF UpdateOrder, OrderOpen, o
  <2>4. Move(o, n)
    BY <2>2, <2>3, QuietMove
  <2> QED
    BY <2>1, <2>4 DEF Operation, o, n
<1> QED
  BY <1>1, <1>2, <1>3, <1>4, <1>5, <1>6 DEF o

\* create_or_refresh_bill opens a fresh bill, or keeps every status.
LEMMA CreateMove ==
  ASSUME NEW w \in Worker, Tables(OrderFirst(w)), CreateOrRefreshBill(w)
  PROVE  \E op \in Operation : \E n : Change(w, op, OrderFirst(w), n) /\ Move(OrderFirst(w), n)
<1> DEFINE o == OrderFirst(w)
<1>0. Tables(o) /\ o.status = "OPEN"
  BY DEF CreateOrRefreshBill, OrderOpen
<1>1. PICK b \in Bill, disc \in Discount, taxes \in BOOLEAN :
        /\ IF OpenBills(o) = {}
           THEN o.billStatus[b] = "NONE" /\ ~ BillReserved(b)
           ELSE b \in OpenBills(o)
        /\ Change(w, "create_or_refresh_bill", o,
             ApplyAmounts([o EXCEPT !.billStatus[b] = "OPEN"], b, disc, taxes, o))
  BY DEF CreateOrRefreshBill
<1>2. o.billStatus = db.billStatus
  BY DEF OrderFirst, WithBills
<1> HIDE DEF o
<1> DEFINE m == [o EXCEPT !.billStatus[b] = "OPEN"]
           n == ApplyAmounts(m, b, disc, taxes, o)
<1>3. /\ Tables(m) /\ m.status = "OPEN" /\ m.billStatus[b] = "OPEN"
      /\ \A c \in Bill : c # b => m.billStatus[c] = o.billStatus[c]
  BY <1>0 DEF Tables, Columns
<1>4. Kept(m, n)
  BY <1>3, ApplyAmountsRows
<1>5. /\ Tables(n) /\ n.status = "OPEN" /\ n.billStatus[b] = "OPEN"
      /\ \A c \in Bill : Changed(o, n, c) => c = b
  BY <1>3, <1>4 DEF Kept, Changed
<1> HIDE DEF m, n
<1>6. Changed(o, n, b) =>
        OpenBills(o) = {} /\ o.billStatus[b] = "NONE" /\ ~ BillReserved(b)
  BY <1>1, <1>5 DEF Changed, OpenBills
<1>7. Move(o, n)
  BY <1>0, <1>2, <1>5, <1>6
     DEF Move, StatusMove, MoneyMove, FreshBills, OrderStatus
<1> QED
  BY <1>1, <1>7 DEF Operation, o, m, n

\* Settling an open bill that is paid exactly makes a Move.
LEMMA SettleMove ==
  ASSUME NEW o, o.status = "OPEN", NEW b \in OpenBills(o), NEW p, Tables(p),
         p.billStatus = o.billStatus, PaidExactly(p, b)
  PROVE  Move(o, Settle(p, b))
<1> DEFINE n == Settle(p, b)
<1>1. b \in Bill /\ o.billStatus[b] = "OPEN"
  BY DEF OpenBills
<1>2. /\ Tables(n) /\ n.status = "SETTLED" /\ n.billStatus[b] = "SETTLED"
      /\ \A c \in Bill : c # b => n.billStatus[c] = o.billStatus[c]
      /\ n.charge = p.charge /\ n.lineStatus = p.lineStatus
      /\ n.lineTotal = p.lineTotal /\ n.type = p.type /\ n.discount = p.discount
      /\ n.taxed = p.taxed /\ n.grand = p.grand /\ n.paid = p.paid
  BY <1>1 DEF Tables, Columns, Settle
<1> HIDE DEF n
<1>3. \A c \in Bill : Changed(o, n, c) <=> c = b
  BY <1>1, <1>2 DEF Changed
<1>4. Subtotal(n) = Subtotal(p)
  BY <1>2, SubtotalSame
<1>5. PaidExactly(n, b)
  BY <1>2, <1>4, TotalSame DEF PaidExactly
<1>6. StatusMove(o, n)
  BY <1>1, <1>2, <1>3 DEF StatusMove, OrderStatus
<1>7. MoneyMove(o, n) /\ FreshBills(o, n)
  BY <1>1, <1>3, <1>5 DEF MoneyMove, FreshBills
<1> QED
  BY <1>2, <1>6, <1>7 DEF Move, n

\* A bill whose amounts were just applied, from the rows it belongs to, and that
\* was then paid up to its total, is paid exactly.
LEMMA AppliedThenPaid ==
  ASSUME NEW o, Tables(o), NEW b \in Bill, NEW disc, NEW taxes, NEW amount \in Nat
  PROVE  LET fresh == ApplyAmounts(o, b, disc, taxes, o)
             p == [fresh EXCEPT !.paid[b] = @ + amount]
         IN /\ Tables(p) /\ p.status = o.status /\ p.billStatus = o.billStatus
            /\ p.grand[b] = fresh.grand[b]
            /\ p.paid[b] = p.grand[b] => PaidExactly(p, b)
<1> DEFINE fresh == ApplyAmounts(o, b, disc, taxes, o)
           p == [fresh EXCEPT !.paid[b] = @ + amount]
<1>1. /\ Kept(o, fresh)
      /\ fresh.discount[b] = Clamped(disc, Subtotal(o))
      /\ fresh.taxed[b] = Taxed(o, taxes)
      /\ fresh.grand[b] = GrandTotal(o, disc, taxes)
  BY ApplyAmountsRows
<1>2. Tables(fresh)
  BY <1>1 DEF Kept
<1> DEFINE q == [fresh.paid EXCEPT ![b] = @ + amount]
<1>a. p = [fresh EXCEPT !.paid = q]
  OBVIOUS
<1> HIDE DEF fresh, p
<1>b. q \in [Bill -> Int]
  BY <1>2 DEF Tables
<1> HIDE DEF q
<1>3. /\ Tables(p) /\ p.status = fresh.status /\ p.charge = fresh.charge
      /\ p.type = fresh.type /\ p.taxed = fresh.taxed
      /\ p.lineStatus = fresh.lineStatus /\ p.lineTotal = fresh.lineTotal
      /\ p.billStatus = fresh.billStatus /\ p.discount = fresh.discount
      /\ p.grand = fresh.grand
  BY <1>2, <1>a, <1>b DEF Tables, Columns
<1>4. Subtotal(p) = Subtotal(o)
  BY <1>1, <1>3, SubtotalSame DEF Kept
<1>5. p.grand[b] = GrandTotal(p, p.discount[b], p.taxed[b])
  <2>1. p.type = o.type
    BY <1>1, <1>3 DEF Kept
  <2>2. p.discount[b] = Clamped(disc, Subtotal(o)) /\ p.taxed[b] = Taxed(o, taxes)
    BY <1>1, <1>3
  <2>3. GrandTotal(p, p.discount[b], p.taxed[b]) = GrandTotal(o, disc, taxes)
    BY <1>4, <2>1, <2>2, TotalStored
  <2> QED
    BY <1>1, <1>3, <2>3
<1> QED
  BY <1>1, <1>3, <1>5 DEF Kept, PaidExactly, fresh, p

\* add_bill_payment keeps every status, or settles.
LEMMA PaymentMove ==
  ASSUME NEW w \in Worker, Tables(BillFirst(w)), AddBillPayment(w)
  PROVE  \E op \in Operation : \E n : Change(w, op, BillFirst(w), n) /\ Move(BillFirst(w), n)
<1> DEFINE o == BillFirst(w)
<1>1. Tables(o) /\ o.status = "OPEN"
  BY DEF AddBillPayment, OrderOpen
<1>2. PICK b \in OpenBills(o), amount \in Amount :
        LET fresh == Refresh(o, b, o)
            paidUp == [fresh EXCEPT !.paid[b] = @ + amount]
        IN Change(w, "add_bill_payment", o,
                  IF paidUp.paid[b] = fresh.grand[b] THEN Settle(paidUp, b)
                  ELSE paidUp)
  BY DEF AddBillPayment
<1> HIDE DEF o
<1> DEFINE fresh == ApplyAmounts(o, b, o.discount[b], o.taxed[b], o)
           p == [fresh EXCEPT !.paid[b] = @ + amount]
           n == IF p.paid[b] = fresh.grand[b] THEN Settle(p, b) ELSE p
<1>3. Change(w, "add_bill_payment", o, n)
  BY <1>2 DEF Refresh
<1>4. b \in Bill /\ amount \in Nat
  BY SettlementAssumption DEF OpenBills
<1>5. /\ Tables(p) /\ p.status = o.status /\ p.billStatus = o.billStatus
      /\ p.grand[b] = fresh.grand[b]
      /\ p.paid[b] = p.grand[b] => PaidExactly(p, b)
  BY <1>1, <1>4, AppliedThenPaid
<1> HIDE DEF fresh, p
<1>6. Move(o, n)
  BY <1>1, <1>5, SettleMove, QuietMove
<1> QED
  BY <1>3, <1>6 DEF Operation, o

\* settle_bill settles.
LEMMA SettleBillMove ==
  ASSUME NEW w \in Worker, Tables(BillFirst(w)), SettleBill(w)
  PROVE  \E op \in Operation : \E n : Change(w, op, BillFirst(w), n) /\ Move(BillFirst(w), n)
<1> DEFINE o == BillFirst(w)
<1>1. Tables(o) /\ o.status = "OPEN"
  BY DEF SettleBill, OrderOpen
<1>2. PICK b \in OpenBills(o), disc \in Discount, taxes \in BOOLEAN,
             amount \in Amount \cup {0} :
        LET fresh == ApplyAmounts(o, b, disc, taxes, o)
            paidUp == [fresh EXCEPT !.paid[b] = @ + amount]
        IN /\ paidUp.paid[b] = fresh.grand[b]
           /\ Change(w, "settle_bill", o, Settle(paidUp, b))
  BY DEF SettleBill
<1> HIDE DEF o
<1> DEFINE fresh == ApplyAmounts(o, b, disc, taxes, o)
           p == [fresh EXCEPT !.paid[b] = @ + amount]
<1>3. p.paid[b] = fresh.grand[b] /\ Change(w, "settle_bill", o, Settle(p, b))
  BY <1>2
<1>4. b \in Bill /\ amount \in Nat
  BY SettlementAssumption DEF OpenBills
<1>5. /\ Tables(p) /\ p.status = o.status /\ p.billStatus = o.billStatus
      /\ p.grand[b] = fresh.grand[b]
      /\ p.paid[b] = p.grand[b] => PaidExactly(p, b)
  BY <1>1, <1>4, AppliedThenPaid
<1> HIDE DEF fresh, p
<1>6. Move(o, Settle(p, b))
  BY <1>1, <1>3, <1>5, SettleMove
<1> QED
  BY <1>3, <1>6 DEF Operation, o

\* cancel_order cancels the order and voids its open bills.
LEMMA CancelMove ==
  ASSUME NEW w \in Worker, Tables(OrderFirst(w)), CancelOrder(w)
  PROVE  \E op \in Operation : \E n : Change(w, op, OrderFirst(w), n) /\ Move(OrderFirst(w), n)
<1> DEFINE o == OrderFirst(w)
           n == [o EXCEPT !.status = "CANCELLED",
                          !.lineStatus = [l \in Line |->
                             IF l \in Billable(o) THEN "CANCELLED" ELSE @[l]],
                          !.billStatus = [b \in Bill |->
                             IF b \in OpenBills(o) THEN "VOID" ELSE @[b]]]
<1>1. Tables(o) /\ o.status = "OPEN" /\ Change(w, "cancel_order", o, n)
  BY DEF CancelOrder, OrderOpen
<1> HIDE DEF o
<1>2. /\ Tables(n) /\ n.status = "CANCELLED"
      /\ \A b \in Bill : n.billStatus[b] =
           IF b \in OpenBills(o) THEN "VOID" ELSE o.billStatus[b]
  BY <1>1 DEF Tables, Columns
<1> HIDE DEF n
<1>3. Move(o, n)
  BY <1>1, <1>2
     DEF Move, StatusMove, MoneyMove, FreshBills, Changed, OpenBills, OrderStatus
<1> QED
  BY <1>1, <1>3 DEF Operation, o

\* Whatever handler runs, it makes a Move from what its session has read.
LEMMA HandleMove ==
  ASSUME NEW w \in Worker, Handle(w), Tables(OrderFirst(w)), Tables(BillFirst(w))
  PROVE  \E op \in Operation, o \in {OrderFirst(w), BillFirst(w)} : \E n :
           Change(w, op, o, n) /\ Move(o, n)
  BY EditMoves, CreateMove, PaymentMove, SettleBillMove, CancelMove DEF Handle

-----------------------------------------------------------------------------
(* The commit *)

\* What a commit leaves in the database.
LEMMA CommitRows ==
  ASSUME NEW r, Tables(db), Tables(r.loaded), Tables(r.new), serial \in Nat
  PROVE  LET m == MergedRows(r)
         IN /\ Tables(m)
            /\ m.status = Written(db.status, r.loaded.status, r.new.status)
            /\ m.type = Written(db.type, r.loaded.type, r.new.type)
            /\ m.charge = Written(db.charge, r.loaded.charge, r.new.charge)
            /\ \A l \in Line :
                 /\ m.lineStatus[l] = Written(db.lineStatus[l], r.loaded.lineStatus[l],
                                              r.new.lineStatus[l])
                 /\ m.lineTotal[l] = Written(db.lineTotal[l], r.loaded.lineTotal[l],
                                             r.new.lineTotal[l])
            /\ \A b \in Bill :
                 /\ m.billStatus[b] = Written(db.billStatus[b], r.loaded.billStatus[b],
                                              r.new.billStatus[b])
                 /\ m.discount[b] = Written(db.discount[b], r.loaded.discount[b],
                                            r.new.discount[b])
                 /\ m.taxed[b] = Written(db.taxed[b], r.loaded.taxed[b], r.new.taxed[b])
                 /\ m.grand[b] = Written(db.grand[b], r.loaded.grand[b], r.new.grand[b])
                 /\ m.paid[b] = db.paid[b] + (r.new.paid[b] - r.loaded.paid[b])
                 /\ m.invoice[b] = IF b \in Numbered(r) THEN serial + 1
                                   ELSE db.invoice[b]
<1> DEFINE m == MergedRows(r)
<1>1. /\ DOMAIN m = Columns
      /\ m.status = Written(db.status, r.loaded.status, r.new.status)
      /\ m.type = Written(db.type, r.loaded.type, r.new.type)
      /\ m.charge = Written(db.charge, r.loaded.charge, r.new.charge)
      /\ m.lineStatus = [l \in Line |-> Written(db.lineStatus[l], r.loaded.lineStatus[l],
                                                r.new.lineStatus[l])]
      /\ m.lineTotal = [l \in Line |-> Written(db.lineTotal[l], r.loaded.lineTotal[l],
                                               r.new.lineTotal[l])]
      /\ m.billStatus = [b \in Bill |-> Written(db.billStatus[b], r.loaded.billStatus[b],
                                                r.new.billStatus[b])]
      /\ m.discount = [b \in Bill |-> Written(db.discount[b], r.loaded.discount[b],
                                              r.new.discount[b])]
      /\ m.taxed = [b \in Bill |-> Written(db.taxed[b], r.loaded.taxed[b],
                                           r.new.taxed[b])]
      /\ m.grand = [b \in Bill |-> Written(db.grand[b], r.loaded.grand[b],
                                           r.new.grand[b])]
      /\ m.paid = [b \in Bill |-> db.paid[b] + (r.new.paid[b] - r.loaded.paid[b])]
      /\ m.invoice = [b \in Bill |-> IF b \in Numbered(r) THEN serial + 1
                                     ELSE db.invoice[b]]
  BY DEF MergedRows, WrittenColumn, Tables, Columns
<1> HIDE DEF m
<1>2. \A l \in Line : m.lineTotal[l] \in Nat
  BY <1>1 DEF Tables, Written
<1>3. \A b \in Bill : m.paid[b] \in Int /\ m.invoice[b] \in Nat
  BY <1>1 DEF Tables
<1>4. Tables(m)
  BY <1>1, <1>2, <1>3 DEF Tables
<1> QED
  BY <1>1, <1>4 DEF m

-----------------------------------------------------------------------------
(* Overlapping requests *)

\* Bills are numbered when they are settled, not before.
BlankUntilSettled(d) ==
  \A b \in Bill : d.billStatus[b] \in {"NONE", "OPEN"} => d.invoice[b] = 0

\* Bills do not disappear between two states of the database.
StillThere(d, e) ==
  \A b \in Bill : d.billStatus[b] # "NONE" => e.billStatus[b] # "NONE"

Inserts(r, b) == r.loaded.billStatus[b] = "NONE" /\ r.new.billStatus[b] # "NONE"

ReadingOK(w) ==
  IsReading(w) =>
    /\ Tables(req[w].seen)
    /\ BlankUntilSettled(req[w].seen)
    /\ StillThere(req[w].seen, db)

BusyOK(w) ==
  IsBusy(w) =>
    /\ Tables(req[w].loaded)
    /\ Tables(req[w].new)
    /\ BlankUntilSettled(req[w].loaded)
    /\ StillThere(req[w].loaded, db)
    /\ StatusMove(req[w].loaded, req[w].new)
    /\ \A b \in Bill : Inserts(req[w], b) => db.billStatus[b] = "NONE"

\* Two requests never insert the same bill.
InsertedOnce ==
  \A v, w \in Worker : \A b \in Bill :
    IsBusy(v) /\ IsBusy(w) /\ Inserts(req[v], b) /\ Inserts(req[w], b) => v = w

InvoicesBounded == \A b \in Bill : db.invoice[b] <= serial

RowsOK ==
  /\ Tables(db)
  /\ serial \in Nat
  /\ BlankUntilSettled(db)
  /\ InvoicesBounded
  /\ InvoicesUnique
  /\ SettledOrderHasSettledBill

OverlapInv ==
  /\ DOMAIN req = Worker
  /\ RowsOK
  /\ \A w \in Worker : ReadingOK(w) /\ BusyOK(w)
  /\ InsertedOnce

\* A step that leaves the database alone and starts no handler's changes keeps
\* what is known of the other requests.
LEMMA OthersKeep ==
  ASSUME OverlapInv, NEW w \in Worker, NEW r, UNCHANGED <<db, serial>>,
         req' = [req EXCEPT ![w] = r]
  PROVE  /\ DOMAIN req' = Worker
         /\ RowsOK'
         /\ req'[w] = r
         /\ \A v \in Worker : v # w => (ReadingOK(v) /\ BusyOK(v))'
         /\ \A v \in Worker : v # w => req'[v] = req[v]
<1>1. /\ DOMAIN req' = Worker
      /\ req'[w] = r
      /\ \A v \in Worker : v # w => req'[v] = req[v]
  BY DEF OverlapInv
<1>2. RowsOK'
  BY DEF OverlapInv, RowsOK, InvoicesBounded, InvoicesUnique, SettledBills,
         SettledOrderHasSettledBill
<1>3. \A v \in Worker : v # w => (ReadingOK(v) /\ BusyOK(v))'
  BY <1>1 DEF OverlapInv, ReadingOK, BusyOK, IsReading, IsBusy, IsIdle
<1> QED
  BY <1>1, <1>2, <1>3

LEMMA ReadKeeps ==
  ASSUME OverlapInv, NEW w \in Worker, Read(w)
  PROVE  OverlapInv'
<1> DEFINE r == [op |-> "reading", seen |-> db]
<1>1. UNCHANGED <<db, serial>> /\ req' = [req EXCEPT ![w] = r]
  BY DEF Read
<1>2. /\ DOMAIN req' = Worker
      /\ RowsOK'
      /\ req'[w] = r
      /\ \A v \in Worker : v # w => (ReadingOK(v) /\ BusyOK(v))'
      /\ \A v \in Worker : v # w => req'[v] = req[v]
  BY <1>1, OthersKeep
<1>3. (ReadingOK(w) /\ BusyOK(w))'
  BY <1>1, <1>2
     DEF OverlapInv, RowsOK, ReadingOK, BusyOK, IsReading, IsBusy, StillThere
<1>4. InsertedOnce'
  BY <1>2 DEF OverlapInv, InsertedOnce, IsBusy, IsReading, IsIdle
<1> QED
  BY <1>2, <1>3, <1>4 DEF OverlapInv

LEMMA AbortKeeps ==
  ASSUME OverlapInv, NEW w \in Worker, Abort(w)
  PROVE  OverlapInv'
<1>1. UNCHANGED <<db, serial>> /\ req' = [req EXCEPT ![w] = Idle]
  BY DEF Abort
<1>2. /\ DOMAIN req' = Worker
      /\ RowsOK'
      /\ req'[w] = Idle
      /\ \A v \in Worker : v # w => (ReadingOK(v) /\ BusyOK(v))'
      /\ \A v \in Worker : v # w => req'[v] = req[v]
  BY <1>1, OthersKeep
<1>3. (ReadingOK(w) /\ BusyOK(w))'
  BY <1>2 DEF ReadingOK, BusyOK, IsReading, IsBusy, IsIdle, Idle
<1>4. InsertedOnce'
  BY <1>2 DEF OverlapInv, InsertedOnce, IsBusy, IsReading, IsIdle, Idle
<1> QED
  BY <1>2, <1>3, <1>4 DEF OverlapInv

\* What a session sees when it decides: rows with the shapes of the database.
LEMMA ViewsOK ==
  ASSUME OverlapInv, NEW w \in Worker, IsReading(w)
  PROVE  \A o \in {OrderFirst(w), BillFirst(w)} :
           Tables(o) /\ BlankUntilSettled(o) /\ StillThere(o, db)
<1>1. /\ Tables(req[w].seen) /\ BlankUntilSettled(req[w].seen)
      /\ StillThere(req[w].seen, db)
      /\ Tables(db) /\ BlankUntilSettled(db)
  BY DEF OverlapInv, ReadingOK, RowsOK
<1>2. Tables(OrderFirst(w)) /\ Tables(BillFirst(w))
  BY <1>1 DEF Tables, Columns, OrderFirst, BillFirst, WithBills
<1> QED
  BY <1>1, <1>2
     DEF OrderFirst, BillFirst, WithBills, BlankUntilSettled, StillThere

LEMMA HandleKeeps ==
  ASSUME OverlapInv, NEW w \in Worker, Handle(w)
  PROVE  OverlapInv'
<1>1. IsReading(w)
  BY DEF Handle
<1>a. PICK op \in Operation, o \in {OrderFirst(w), BillFirst(w)} :
        \E n : Change(w, op, o, n) /\ Move(o, n)
  BY <1>1, ViewsOK, HandleMove
<1>2. PICK n : Change(w, op, o, n) /\ Move(o, n)
  BY <1>a
<1> DEFINE r == [op |-> op, loaded |-> o, new |-> n]
<1>3. UNCHANGED <<db, serial>> /\ req' = [req EXCEPT ![w] = r]
  BY <1>2 DEF Change
<1>4. /\ DOMAIN req' = Worker
      /\ RowsOK'
      /\ req'[w] = r
      /\ \A v \in Worker : v # w => (ReadingOK(v) /\ BusyOK(v))'
      /\ \A v \in Worker : v # w => req'[v] = req[v]
  BY <1>3, OthersKeep
<1>5. \A b \in Bill : Inserts(r, b) =>
        db.billStatus[b] = "NONE" /\ ~ BillReserved(b)
  BY <1>2 DEF Move, FreshBills, Inserts, Changed
<1>6. Tables(o) /\ BlankUntilSettled(o) /\ StillThere(o, db)
  BY <1>1, ViewsOK
<1>7. r.op # "idle" /\ r.op # "reading" /\ r.loaded = o /\ r.new = n
  BY DEF Operation
<1> HIDE DEF r
<1>8. (ReadingOK(w) /\ BusyOK(w))'
  BY <1>2, <1>3, <1>4, <1>5, <1>6, <1>7
     DEF Move, ReadingOK, BusyOK, IsReading, IsBusy, IsIdle
<1>9. InsertedOnce'
  <2> SUFFICES ASSUME NEW u \in Worker, NEW v \in Worker, NEW b \in Bill,
                      IsBusy(u)', IsBusy(v)', Inserts(req'[u], b), Inserts(req'[v], b)
               PROVE  u = v
    BY DEF InsertedOnce
  <2>1. CASE u # w /\ v # w
    BY <2>1, <1>4 DEF OverlapInv, InsertedOnce, IsBusy, IsReading, IsIdle
  <2>2. ASSUME NEW x \in Worker, x # w, IsBusy(x)', Inserts(req'[x], b)
        PROVE  BillReserved(b)
    BY <2>2, <1>4 DEF BillReserved, IsBusy, IsReading, IsIdle, Inserts
  <2>3. ~ (Inserts(req'[w], b) /\ BillReserved(b))
    BY <1>4, <1>5
  <2> QED
    BY <2>1, <2>2, <2>3
<1> QED
  BY <1>4, <1>8, <1>9 DEF OverlapInv

\* A commit keeps the rows consistent.
LEMMA CommitKeepsRows ==
  ASSUME OverlapInv, NEW w \in Worker, Commit(w)
  PROVE  /\ RowsOK'
         /\ StillThere(db, db')
         /\ \A b \in Bill : db'.billStatus[b] # db.billStatus[b] =>
              \/ req[w].loaded.billStatus[b] # "NONE"
              \/ Inserts(req[w], b)
<1> DEFINE r == req[w]
           o == req[w].loaded
           n == req[w].new
<1>1. /\ Tables(db) /\ serial \in Nat /\ BlankUntilSettled(db) /\ InvoicesBounded
      /\ InvoicesUnique /\ SettledOrderHasSettledBill
      /\ Tables(o) /\ Tables(n) /\ BlankUntilSettled(o) /\ StatusMove(o, n)
      /\ StillThere(o, db)
      /\ \A b \in Bill : Inserts(r, b) => db.billStatus[b] = "NONE"
  BY DEF Commit, OverlapInv, BusyOK, RowsOK
<1>2. /\ db' = MergedRows(r)
      /\ serial' = IF Numbered(r) = {} THEN serial ELSE serial + 1
  BY DEF Commit
<1>3. /\ Tables(db')
      /\ db'.status = Written(db.status, o.status, n.status)
      /\ \A b \in Bill :
           /\ db'.billStatus[b]
                = Written(db.billStatus[b], o.billStatus[b], n.billStatus[b])
           /\ db'.invoice[b] = IF b \in Numbered(r) THEN serial + 1 ELSE db.invoice[b]
  BY <1>1, <1>2, CommitRows
<1>4. /\ \A b \in Bill : b \in Numbered(r) <=>
           Changed(o, n, b) /\ n.billStatus[b] = "SETTLED"
      /\ \A b, c \in Numbered(r) : b = c
      /\ Numbered(r) \subseteq Bill
  BY <1>1 DEF Numbered, StatusMove, Changed, BlankUntilSettled
<1> HIDE DEF r
<1>5. \A b \in Bill : db'.billStatus[b] =
        IF Changed(o, n, b) THEN n.billStatus[b] ELSE db.billStatus[b]
  BY <1>3 DEF Changed, Written
<1>6. \A b \in Bill : Changed(o, n, b) =>
        /\ n.billStatus[b] \in {"OPEN", "SETTLED", "VOID"}
        /\ o.billStatus[b] = "NONE" => Inserts(r, b)
  BY <1>1 DEF StatusMove, Inserts, Changed, r
<1>7. serial' \in Nat /\ serial <= serial'
  BY <1>1, <1>2
<1>8. \A b \in Bill : db.invoice[b] \in Nat /\ db'.invoice[b] \in Nat
  BY <1>1, <1>3 DEF Tables
<1>9. InvoicesBounded'
  BY <1>1, <1>2, <1>3, <1>8 DEF InvoicesBounded
<1>10. BlankUntilSettled(db')
  BY <1>1, <1>3, <1>4, <1>5, <1>6 DEF BlankUntilSettled, StatusMove, Inserts, r
<1>11. InvoicesUnique'
  <2>1. \A b \in SettledBills' : db'.invoice[b] \in 1 .. serial'
    <3> SUFFICES ASSUME NEW b \in Bill, db'.billStatus[b] = "SETTLED"
                 PROVE  db'.invoice[b] # 0
      BY <1>7, <1>8, <1>9 DEF InvoicesBounded, SettledBills
    <3> QED
      BY <1>1, <1>3, <1>4, <1>5 DEF InvoicesUnique, SettledBills
  <2>2. ASSUME NEW b \in Bill, NEW c \in Bill, db'.invoice[b] = db'.invoice[c], b # c
        PROVE  db'.invoice[b] = 0
    BY <2>2, <1>1, <1>3, <1>4, <1>8 DEF InvoicesUnique, InvoicesBounded
  <2> QED
    BY <2>1, <2>2 DEF InvoicesUnique
<1>12. SettledOrderHasSettledBill'
  <2>1. CASE n.status = "OPEN"
    <3>1. db'.status = db.status
      BY <2>1, <1>1, <1>3 DEF Written, StatusMove
    <3>2. \A b \in Bill : db.billStatus[b] = "SETTLED" => db'.billStatus[b] = "SETTLED"
      BY <2>1, <1>1, <1>5 DEF StatusMove, Inserts, Changed, r
    <3> QED
      BY <3>1, <3>2, <1>1 DEF SettledOrderHasSettledBill, SettledBills
  <2>2. CASE n.status = "SETTLED"
    <3>1. \E b \in Bill : Changed(o, n, b) /\ n.billStatus[b] = "SETTLED"
      BY <2>2, <1>1 DEF StatusMove
    <3> QED
      BY <3>1, <1>5 DEF SettledOrderHasSettledBill, SettledBills
  <2>3. CASE n.status = "CANCELLED"
    BY <2>3, <1>1, <1>3 DEF Written, StatusMove, SettledOrderHasSettledBill
  <2> QED
    BY <1>1, <2>1, <2>2, <2>3 DEF StatusMove, OrderStatus
<1>13. StillThere(db, db')
  BY <1>5, <1>6 DEF StillThere
<1> QED
  BY <1>3, <1>5, <1>6, <1>7, <1>9, <1>10, <1>11, <1>12, <1>13 DEF RowsOK, r

LEMMA CommitKeeps ==
  ASSUME OverlapInv, NEW w \in Worker, Commit(w)
  PROVE  OverlapInv'
<1>1. /\ RowsOK'
      /\ StillThere(db, db')
      /\ \A b \in Bill : db'.billStatus[b] # db.billStatus[b] =>
           \/ req[w].loaded.billStatus[b] # "NONE"
           \/ Inserts(req[w], b)
  BY CommitKeepsRows
<1>2. /\ IsBusy(w)
      /\ DOMAIN req' = Worker
      /\ req'[w] = Idle
      /\ \A v \in Worker : v # w => req'[v] = req[v]
  BY DEF Commit, OverlapInv
<1>3. (ReadingOK(w) /\ BusyOK(w))'
  BY <1>2 DEF ReadingOK, BusyOK, IsReading, IsBusy, IsIdle, Idle
<1>4. ASSUME NEW v \in Worker, v # w
      PROVE  (ReadingOK(v) /\ BusyOK(v))'
  <2>1. ReadingOK(v)'
    BY <1>1, <1>2, <1>4 DEF OverlapInv, ReadingOK, IsReading, StillThere
  <2>2. ASSUME IsBusy(v), NEW b \in Bill, Inserts(req[v], b)
        PROVE  db'.billStatus[b] = "NONE"
    <3>1. db.billStatus[b] = "NONE"
      BY <2>2 DEF OverlapInv, BusyOK
    <3>2. ~ Inserts(req[w], b)
      BY <1>2, <1>4, <2>2 DEF OverlapInv, InsertedOnce
    <3>3. req[w].loaded.billStatus[b] = "NONE"
      BY <1>2, <3>1 DEF OverlapInv, BusyOK, StillThere
    <3> QED
      BY <1>1, <3>1, <3>2, <3>3
  <2>3. BusyOK(v)'
    BY <1>1, <1>2, <1>4, <2>2
       DEF OverlapInv, BusyOK, IsBusy, IsReading, IsIdle, StillThere
  <2> QED
    BY <2>1, <2>3
<1>5. InsertedOnce'
  BY <1>2 DEF OverlapInv, InsertedOnce, IsBusy, IsReading, IsIdle, Idle
<1> QED
  BY <1>1, <1>2, <1>3, <1>4, <1>5 DEF OverlapInv

LEMMA OverlapInductive == Spec => []OverlapInv
<1>1. Init => OverlapInv
  <2> SUFFICES ASSUME Init PROVE OverlapInv
    OBVIOUS
  <2>1. RowsOK
    BY DEF Init, RowsOK, Tables, Columns, BlankUntilSettled, InvoicesBounded,
           InvoicesUnique, SettledBills, SettledOrderHasSettledBill
  <2>2. \A w \in Worker : IsIdle(w)
    BY DEF Init, Idle, IsIdle
  <2>3. DOMAIN req = Worker
    BY DEF Init
  <2> QED
    BY <2>1, <2>2, <2>3
       DEF OverlapInv, ReadingOK, BusyOK, InsertedOnce, IsReading, IsBusy, IsIdle
<1>2. OverlapInv /\ [Next]_vars => OverlapInv'
  <2> SUFFICES ASSUME OverlapInv, [Next]_vars PROVE OverlapInv'
    OBVIOUS
  <2>1. CASE UNCHANGED vars
    BY <2>1 DEF vars, OverlapInv, RowsOK, InvoicesBounded, InvoicesUnique, SettledBills,
                SettledOrderHasSettledBill, ReadingOK, BusyOK, InsertedOnce,
                IsReading, IsBusy, IsIdle
  <2>2. CASE Next
    <3>1. PICK w \in Worker : Read(w) \/ Handle(w) \/ Commit(w) \/ Abort(w)
      BY <2>2 DEF Next
    <3> QED
      BY <3>1, ReadKeeps, HandleKeeps, CommitKeeps, AbortKeeps
  <2> QED
    BY <2>1, <2>2
<1> QED
  BY <1>1, <1>2, PTL DEF Spec

\* However requests overlap, a settled order has a settled bill: no sequence of
\* lost updates separates the two columns settle_bill writes together.
THEOREM SettledOrdersAreBilled == Spec => []SettledOrderHasSettledBill
<1>1. OverlapInv => SettledOrderHasSettledBill
  BY DEF OverlapInv, RowsOK
<1> QED
  BY <1>1, OverlapInductive, PTL

\* However requests overlap, a settled bill has an invoice number of its own.
THEOREM InvoiceNumbersUnique == Spec => []InvoicesUnique
<1>1. OverlapInv => InvoicesUnique
  BY DEF OverlapInv, RowsOK
<1> QED
  BY <1>1, OverlapInductive, PTL

\* However requests overlap, no late commit reopens a closed order or takes the
\* invoice number from a bill.
THEOREM ClosedForGood == Spec => ClosedStaysClosed
<1> DEFINE Closed == /\ db.status # "OPEN" => db'.status # "OPEN"
                     /\ \A b \in Bill : db.invoice[b] # 0 =>
                          db'.invoice[b] >= db.invoice[b]
<1>1. OverlapInv /\ [Next]_vars => [Closed]_vars
  <2> SUFFICES ASSUME OverlapInv, Next PROVE Closed
    OBVIOUS
  <2>1. \A b \in Bill : db.invoice[b] \in Nat /\ db.invoice[b] <= serial /\ serial \in Nat
    BY DEF OverlapInv, RowsOK, Tables, InvoicesBounded
  <2>2. PICK w \in Worker : Read(w) \/ Handle(w) \/ Commit(w) \/ Abort(w)
    BY DEF Next
  <2>3. CASE Read(w) \/ Abort(w)
    BY <2>1, <2>3 DEF Read, Abort
  <2>4. CASE Handle(w)
    <3>1. \E op \in Operation, o \in {OrderFirst(w), BillFirst(w)} :
            \E n : Change(w, op, o, n)
      BY <2>4, ViewsOK, HandleMove DEF Handle
    <3> QED
      BY <2>1, <3>1 DEF Change
  <2>5. CASE Commit(w)
    <3>1. /\ Tables(db) /\ serial \in Nat /\ Tables(req[w].loaded) /\ Tables(req[w].new)
          /\ StatusMove(req[w].loaded, req[w].new)
      BY <2>5 DEF Commit, OverlapInv, BusyOK, RowsOK
    <3>2. /\ db'.status = Written(db.status, req[w].loaded.status, req[w].new.status)
          /\ \A b \in Bill : db'.invoice[b] = IF b \in Numbered(req[w]) THEN serial + 1
                                              ELSE db.invoice[b]
      BY <2>5, <3>1, CommitRows DEF Commit
    <3> QED
      BY <2>1, <3>1, <3>2 DEF Written, StatusMove
  <2> QED
    BY <2>2, <2>3, <2>4, <2>5
<1> QED
  BY <1>1, OverlapInductive, PTL DEF Spec, ClosedStaysClosed

-----------------------------------------------------------------------------
(* Requests one at a time *)

Settled(d) == {b \in Bill : d.billStatus[b] = "SETTLED"}

\* Rows whose order and bills agree, and whose settled bill is paid exactly.
Good(d) ==
  /\ d.status \in OrderStatus
  /\ d.status = "OPEN" => AtMostOneOpen(d) /\ Settled(d) = {}
  /\ d.status # "OPEN" => OpenBills(d) = {}
  /\ d.status = "SETTLED" => \E b \in Bill : Settled(d) = {b}
  /\ d.status = "CANCELLED" => Settled(d) = {}
  /\ \A b \in Settled(d) : PaidExactly(d, b)

\* d and e hold the same values, invoice numbers aside.
Agree(d, e) ==
  /\ d.status = e.status
  /\ d.type = e.type
  /\ d.charge = e.charge
  /\ \A l \in Line : d.lineStatus[l] = e.lineStatus[l]
  /\ d.lineTotal = e.lineTotal
  /\ \A b \in Bill : /\ d.billStatus[b] = e.billStatus[b]
                     /\ d.discount[b] = e.discount[b]
                     /\ d.taxed[b] = e.taxed[b]
                     /\ d.grand[b] = e.grand[b]
                     /\ d.paid[b] = e.paid[b]

LEMMA GoodTransfers ==
  ASSUME NEW d, NEW e, Agree(d, e), Good(e)
  PROVE  Good(d)
<1>1. OpenBills(d) = OpenBills(e) /\ Settled(d) = Settled(e)
  BY DEF Agree, OpenBills, Settled
<1>2. Subtotal(d) = Subtotal(e)
  BY SubtotalSame DEF Agree
<1>3. ASSUME NEW b \in Settled(d) PROVE PaidExactly(d, b)
  <2>1. b \in Bill /\ PaidExactly(e, b)
    BY <1>1, <1>3 DEF Good, Settled
  <2> QED
    BY <1>2, <2>1, TotalSame DEF Agree, PaidExactly
<1> QED
  BY <1>1, <1>3 DEF Good, Agree, AtMostOneOpen

\* A Move leads from good rows to good rows.
LEMMA MoveIsGood ==
  ASSUME NEW o, NEW n, Good(o), Move(o, n)
  PROVE  Good(n)
<1>1. /\ StatusMove(o, n) /\ MoneyMove(o, n)
      /\ AtMostOneOpen(o) /\ Settled(o) = {}
  BY DEF Good, Move, StatusMove
<1>2. \A b \in Bill : ~ Changed(o, n, b) => n.billStatus[b] = o.billStatus[b]
  BY DEF Changed
<1>3. \A b \in Settled(n) : Changed(o, n, b) /\ n.status = "SETTLED"
  BY <1>1, <1>2 DEF Settled, StatusMove
<1>4. \A b \in Settled(n) : PaidExactly(n, b)
  BY <1>1, <1>3 DEF MoneyMove, Settled
<1>5. n.status = "OPEN" => AtMostOneOpen(n) /\ Settled(n) = {}
  BY <1>1, <1>2, <1>3 DEF StatusMove, AtMostOneOpen, OpenBills
<1>6. n.status = "SETTLED" =>
        OpenBills(n) = {} /\ \E b \in Bill : Settled(n) = {b}
  <2> SUFFICES ASSUME n.status = "SETTLED"
               PROVE  OpenBills(n) = {} /\ \E b \in Bill : Settled(n) = {b}
    OBVIOUS
  <2>1. PICK b \in Bill : Changed(o, n, b)
    BY <1>1 DEF StatusMove
  <2>2. o.billStatus[b] = "OPEN" /\ n.billStatus[b] = "SETTLED"
    BY <1>1, <2>1 DEF StatusMove
  <2>3. \A c \in Bill : Changed(o, n, c) => c = b
    BY <1>1, <2>1 DEF StatusMove
  <2>4. Settled(n) = {b}
    BY <1>3, <2>2, <2>3 DEF Settled
  <2>5. \A c \in Bill : c # b => n.billStatus[c] # "OPEN"
    BY <1>1, <1>2, <2>2, <2>3 DEF AtMostOneOpen, OpenBills
  <2> QED
    BY <2>2, <2>4, <2>5 DEF OpenBills
<1>7. n.status = "CANCELLED" => OpenBills(n) = {} /\ Settled(n) = {}
  BY <1>1, <1>3 DEF StatusMove
<1> QED
  BY <1>1, <1>4, <1>5, <1>6, <1>7 DEF Good, StatusMove, OrderStatus

SerialReadingOK(w) == IsReading(w) => req[w].seen = db

SerialBusyOK(w) ==
  IsBusy(w) =>
    /\ Tables(req[w].loaded)
    /\ Tables(req[w].new)
    /\ Agree(req[w].loaded, db)
    /\ req[w].loaded.invoice = db.invoice
    /\ StatusMove(req[w].loaded, req[w].new)
    /\ Good(req[w].new)

SerialRowsOK ==
  /\ Tables(db)
  /\ Good(db)
  /\ BlankUntilSettled(db)
  /\ serial = IF db.status = "SETTLED" THEN 1 ELSE 0

SerialInv ==
  /\ DOMAIN req = Worker
  /\ SerialRowsOK
  /\ \A w \in Worker : SerialReadingOK(w) /\ SerialBusyOK(w)
  /\ \A v, w \in Worker : ~ IsIdle(v) /\ ~ IsIdle(w) => v = w

LEMMA SerialReadKeeps ==
  ASSUME SerialInv, NEW w \in Worker, \A v \in Worker : IsIdle(v), Read(w)
  PROVE  SerialInv'
<1>1. /\ UNCHANGED <<db, serial>>
      /\ req'[w].op = "reading" /\ req'[w].seen = db
      /\ DOMAIN req' = Worker
      /\ \A v \in Worker : v # w => req'[v] = req[v]
  BY DEF Read, SerialInv
<1>2. SerialRowsOK'
  BY <1>1 DEF SerialInv, SerialRowsOK
<1>3. \A v \in Worker : v # w => IsIdle(v)'
  BY <1>1 DEF IsIdle
<1>4. \A v \in Worker : (SerialReadingOK(v) /\ SerialBusyOK(v))'
  BY <1>1, <1>3 DEF SerialReadingOK, SerialBusyOK, IsReading, IsBusy, IsIdle
<1> QED
  BY <1>1, <1>2, <1>3, <1>4 DEF SerialInv

LEMMA SerialHandleKeeps ==
  ASSUME SerialInv, NEW w \in Worker, Handle(w)
  PROVE  SerialInv'
<1>1. IsReading(w) /\ ~ IsIdle(w) /\ req[w].seen = db /\ Tables(db) /\ Good(db)
  BY DEF Handle, SerialInv, SerialReadingOK, SerialRowsOK, IsReading, IsIdle
<1>2. \A o \in {OrderFirst(w), BillFirst(w)} :
        Tables(o) /\ Agree(o, db) /\ o.invoice = db.invoice
  BY <1>1 DEF OrderFirst, BillFirst, WithBills, Tables, Columns, Agree
<1>a. PICK op \in Operation, o \in {OrderFirst(w), BillFirst(w)} :
        \E n : Change(w, op, o, n) /\ Move(o, n)
  BY <1>2, HandleMove
<1>3. PICK n : Change(w, op, o, n) /\ Move(o, n)
  BY <1>a
<1>4. Good(o) /\ Good(n)
  BY <1>1, <1>2, <1>3, GoodTransfers, MoveIsGood
<1>5. /\ UNCHANGED <<db, serial>>
      /\ req'[w].op = op /\ req'[w].loaded = o /\ req'[w].new = n
      /\ op # "idle" /\ op # "reading"
      /\ DOMAIN req' = Worker
      /\ \A v \in Worker : v # w => req'[v] = req[v]
  BY <1>3 DEF Change, SerialInv, Operation
<1>6. SerialRowsOK'
  BY <1>5 DEF SerialInv, SerialRowsOK
<1>7. \A v \in Worker : v # w => IsIdle(v)'
  BY <1>1, <1>5 DEF SerialInv, IsIdle
<1>8. (SerialReadingOK(w) /\ SerialBusyOK(w))'
  BY <1>2, <1>3, <1>4, <1>5 DEF SerialReadingOK, SerialBusyOK, IsReading, Move
<1>9. \A v \in Worker : (SerialReadingOK(v) /\ SerialBusyOK(v))'
  BY <1>7, <1>8 DEF SerialReadingOK, SerialBusyOK, IsReading, IsBusy, IsIdle
<1> QED
  BY <1>5, <1>6, <1>7, <1>9 DEF SerialInv

\* The commit of a request that ran alone leaves exactly its rows.
LEMMA SerialCommitKeeps ==
  ASSUME SerialInv, NEW w \in Worker, Commit(w)
  PROVE  SerialInv' /\ Agree(db', req[w].new)
<1> DEFINE r == req[w]
           o == req[w].loaded
           n == req[w].new
<1>1. /\ Tables(o) /\ Tables(n) /\ Agree(o, db) /\ o.invoice = db.invoice
      /\ StatusMove(o, n) /\ Good(n)
      /\ Tables(db) /\ Good(db) /\ BlankUntilSettled(db)
      /\ serial = 0
      /\ ~ IsIdle(w)
  BY DEF Commit, SerialInv, SerialBusyOK, SerialRowsOK, IsBusy, StatusMove, Agree
<1>2. /\ db' = MergedRows(r)
      /\ serial' = IF Numbered(r) = {} THEN serial ELSE serial + 1
      /\ req'[w] = Idle
      /\ DOMAIN req' = Worker
      /\ \A v \in Worker : v # w => req'[v] = req[v]
  BY DEF Commit, SerialInv
<1>3. LET m == db'
      IN /\ Tables(m)
         /\ m.status = Written(db.status, o.status, n.status)
         /\ m.type = Written(db.type, o.type, n.type)
         /\ m.charge = Written(db.charge, o.charge, n.charge)
         /\ \A l \in Line :
              /\ m.lineStatus[l] = Written(db.lineStatus[l], o.lineStatus[l],
                                           n.lineStatus[l])
              /\ m.lineTotal[l] = Written(db.lineTotal[l], o.lineTotal[l],
                                          n.lineTotal[l])
         /\ \A b \in Bill :
              /\ m.billStatus[b] = Written(db.billStatus[b], o.billStatus[b],
                                           n.billStatus[b])
              /\ m.discount[b] = Written(db.discount[b], o.discount[b], n.discount[b])
              /\ m.taxed[b] = Written(db.taxed[b], o.taxed[b], n.taxed[b])
              /\ m.grand[b] = Written(db.grand[b], o.grand[b], n.grand[b])
              /\ m.paid[b] = db.paid[b] + (n.paid[b] - o.paid[b])
              /\ m.invoice[b] = IF b \in Numbered(r) THEN serial + 1 ELSE db.invoice[b]
  BY <1>1, <1>2, CommitRows
<1>4. Numbered(r) = {b \in Bill : Changed(o, n, b) /\ n.billStatus[b] = "SETTLED"}
  BY <1>1 DEF Numbered, StatusMove, Changed, BlankUntilSettled, Agree
<1> HIDE DEF r
<1>5. \A l \in Line : db'.lineStatus[l] = n.lineStatus[l]
                      /\ db'.lineTotal[l] = n.lineTotal[l]
  BY <1>1, <1>3 DEF Written, Agree
<1>6. db'.lineTotal = n.lineTotal
  BY <1>1, <1>3, <1>5 DEF Tables
<1>7. \A b \in Bill : db'.paid[b] = n.paid[b]
  BY <1>1, <1>3 DEF Tables, Agree
<1>8. Agree(db', n)
  BY <1>1, <1>3, <1>5, <1>6, <1>7 DEF Written, Agree
<1>9. Good(db')
  BY <1>1, <1>8, GoodTransfers
<1>10. serial' = IF db'.status = "SETTLED" THEN 1 ELSE 0
  BY <1>1, <1>2, <1>4, <1>8 DEF StatusMove, Agree, Changed
<1>11. BlankUntilSettled(db')
  BY <1>1, <1>3, <1>4, <1>8 DEF BlankUntilSettled, Agree, StatusMove, Changed
<1>12. \A v \in Worker : IsIdle(v)'
  BY <1>1, <1>2 DEF SerialInv, IsIdle, Idle
<1>13. \A v \in Worker : (SerialReadingOK(v) /\ SerialBusyOK(v))'
  BY <1>12 DEF SerialReadingOK, SerialBusyOK, IsReading, IsBusy, IsIdle
<1> QED
  BY <1>2, <1>3, <1>8, <1>9, <1>10, <1>11, <1>12, <1>13 DEF SerialInv, SerialRowsOK

LEMMA SerialAbortKeeps ==
  ASSUME SerialInv, NEW w \in Worker, Abort(w)
  PROVE  SerialInv'
<1>1. /\ UNCHANGED <<db, serial>>
      /\ req'[w] = Idle
      /\ DOMAIN req' = Worker
      /\ \A v \in Worker : v # w => req'[v] = req[v]
      /\ ~ IsIdle(w)
  BY DEF Abort, SerialInv
<1>2. SerialRowsOK'
  BY <1>1 DEF SerialInv, SerialRowsOK
<1>3. \A v \in Worker : IsIdle(v)'
  BY <1>1 DEF SerialInv, IsIdle, Idle
<1>4. \A v \in Worker : (SerialReadingOK(v) /\ SerialBusyOK(v))'
  BY <1>3 DEF SerialReadingOK, SerialBusyOK, IsReading, IsBusy, IsIdle
<1> QED
  BY <1>1, <1>2, <1>3, <1>4 DEF SerialInv

LEMMA SerialInductive == SerialSpec => []SerialInv
<1>1. Init => SerialInv
  <2> SUFFICES ASSUME Init PROVE SerialInv
    OBVIOUS
  <2>1. SerialRowsOK
    BY DEF Init, SerialRowsOK, Tables, Columns, BlankUntilSettled, Good, OrderStatus,
           AtMostOneOpen, OpenBills, Settled
  <2>2. \A w \in Worker : IsIdle(w)
    BY DEF Init, Idle, IsIdle
  <2>3. DOMAIN req = Worker
    BY DEF Init
  <2> QED
    BY <2>1, <2>2, <2>3
       DEF SerialInv, SerialReadingOK, SerialBusyOK, IsReading, IsBusy, IsIdle
<1>2. SerialInv /\ [SerialNext]_vars => SerialInv'
  <2> SUFFICES ASSUME SerialInv, [SerialNext]_vars PROVE SerialInv'
    OBVIOUS
  <2>1. CASE UNCHANGED vars
    BY <2>1 DEF vars, SerialInv, SerialRowsOK, SerialReadingOK, SerialBusyOK,
                IsReading, IsBusy, IsIdle
  <2>2. CASE SerialNext
    <3>1. PICK w \in Worker :
            \/ (\A v \in Worker : IsIdle(v)) /\ Read(w)
            \/ Handle(w) \/ Commit(w) \/ Abort(w)
      BY <2>2 DEF SerialNext
    <3> QED
      BY <3>1, SerialReadKeeps, SerialHandleKeeps, SerialCommitKeeps, SerialAbortKeeps
  <2> QED
    BY <2>1, <2>2
<1> QED
  BY <1>1, <1>2, PTL DEF SerialSpec

\* Requests one at a time keep the order and its bills consistent.
THEOREM OrderAndBillsAgree == SerialSpec => []BillsFollowOrder
<1>1. SerialInv => BillsFollowOrder
  BY DEF SerialInv, SerialRowsOK, Good, BillsFollowOrder, Settled, SettledBills
<1> QED
  BY <1>1, SerialInductive, PTL

\* Requests one at a time settle a bill only when it is paid exactly, for what
\* the order costs.
THEOREM PaidToTheRupee == SerialSpec => []SettledInFull
<1>1. SerialInv => SettledInFull
  BY DEF SerialInv, SerialRowsOK, Good, PaidExactly, SettledInFull, Settled, SettledBills
<1> QED
  BY <1>1, SerialInductive, PTL

\* Requests one at a time draw an invoice number for every settled bill and no
\* other.
THEOREM SerialsMatchBills == SerialSpec => []NoSerialBurnt
<1>1. SerialInv => NoSerialBurnt
  <2> SUFFICES ASSUME SerialInv PROVE NoSerialBurnt
    OBVIOUS
  <2>1. Good(db) /\ SettledBills = Settled(db)
    BY DEF SerialInv, SerialRowsOK, Settled, SettledBills
  <2>2. CASE db.status = "SETTLED"
    <3>1. PICK b \in Bill : SettledBills = {b}
      BY <2>1, <2>2 DEF Good
    <3>2. Cardinality({b}) = 1
      BY FS_Singleton
    <3> QED
      BY <2>2, <3>1, <3>2 DEF SerialInv, SerialRowsOK, NoSerialBurnt
  <2>3. CASE db.status # "SETTLED"
    <3>1. SettledBills = {}
      BY <2>1, <2>3 DEF Good, OrderStatus
    <3>2. Cardinality({}) = 0
      BY FS_EmptySet
    <3> QED
      BY <2>3, <3>1, <3>2 DEF SerialInv, SerialRowsOK, NoSerialBurnt
  <2> QED
    BY <2>2, <2>3
<1> QED
  BY <1>1, SerialInductive, PTL

\* Requests one at a time leave a closed order as it is.
THEOREM ClosedIsHistory == SerialSpec => ClosedOrderFrozen
<1>1. SerialInv /\ [SerialNext]_vars =>
        [db.status # "OPEN" => UNCHANGED <<db, serial>>]_vars
  <2> SUFFICES ASSUME SerialInv, SerialNext, db.status # "OPEN"
               PROVE  UNCHANGED <<db, serial>>
    OBVIOUS
  <2>1. PICK w \in Worker : Read(w) \/ Handle(w) \/ Commit(w) \/ Abort(w)
    BY DEF SerialNext
  <2>2. ~ Commit(w)
    BY DEF Commit, SerialInv, SerialBusyOK, StatusMove, Agree
  <2>3. CASE Read(w) \/ Abort(w)
    BY <2>3 DEF Read, Abort
  <2>4. CASE Handle(w)
    <3>1. IsReading(w) /\ req[w].seen = db /\ Tables(db)
      BY <2>4 DEF Handle, SerialInv, SerialReadingOK, SerialRowsOK
    <3>2. Tables(OrderFirst(w)) /\ Tables(BillFirst(w))
      BY <3>1 DEF OrderFirst, BillFirst, WithBills, Tables, Columns
    <3> QED
      BY <2>4, <3>2, HandleMove DEF Change
  <2> QED
    BY <2>1, <2>2, <2>3, <2>4
<1> QED
  BY <1>1, SerialInductive, PTL DEF SerialSpec, ClosedOrderFrozen

-----------------------------------------------------------------------------
(* What the open bill shows *)

\* The open bills of rows d show what the order costs by these rows.
FreshRows(d) ==
  \A b \in OpenBills(d) : d.grand[b] = GrandTotal(d, d.discount[b], d.taxed[b])

\* The handlers that change the order's cost and leave the open bill behind.
LeavesBillBehind == {"remove_line", "update_order"}

\* Every other handler that found the bill fresh is about to write a fresh one.
FreshInv ==
  \A w \in Worker :
    IsBusy(w) /\ req[w].op \notin LeavesBillBehind /\ FreshRows(req[w].loaded)
      => FreshRows(req[w].new)

\* Rows that hold the same values are fresh together.
LEMMA FreshTransfers ==
  ASSUME NEW d, NEW e, Agree(d, e), FreshRows(e)
  PROVE  FreshRows(d)
<1>1. OpenBills(d) = OpenBills(e) /\ OpenBills(d) \subseteq Bill
  BY DEF Agree, OpenBills
<1>2. Subtotal(d) = Subtotal(e)
  BY SubtotalSame DEF Agree
<1> QED
  BY <1>1, <1>2, TotalSame DEF Agree, FreshRows

\* Amounts applied to the only open bill, for what its own order costs, make the
\* rows fresh.
LEMMA AppliedFresh ==
  ASSUME NEW d, Tables(d), NEW b \in Bill, OpenBills(d) \subseteq {b}, NEW disc,
         NEW taxes, NEW basis, Subtotal(basis) = Subtotal(d), basis.type = d.type
  PROVE  FreshRows(ApplyAmounts(d, b, disc, taxes, basis))
<1> DEFINE e == ApplyAmounts(d, b, disc, taxes, basis)
<1>1. /\ Kept(d, e)
      /\ e.discount[b] = Clamped(disc, Subtotal(basis))
      /\ e.taxed[b] = Taxed(basis, taxes)
      /\ e.grand[b] = GrandTotal(basis, disc, taxes)
  BY ApplyAmountsRows
<1> HIDE DEF e
<1>2. OpenBills(e) \subseteq {b}
  BY <1>1 DEF Kept, OpenBills
<1>3. Subtotal(e) = Subtotal(basis)
  BY <1>1, SubtotalSame DEF Kept
<1>4. e.grand[b] = GrandTotal(e, e.discount[b], e.taxed[b])
  <2>1. e.type = basis.type
    BY <1>1 DEF Kept
  <2> QED
    BY <1>1, <1>3, <2>1, TotalStored
<1> QED
  BY <1>2, <1>4 DEF FreshRows, e

\* The refresh that ends most edits does so.
LEMMA RefreshedFresh ==
  ASSUME NEW d, Tables(d), AtMostOneOpen(d)
  PROVE  FreshRows(RefreshOpenBill(d, d))
<1>1. CASE OpenBills(d) = {}
  BY <1>1 DEF RefreshOpenBill, FreshRows
<1>2. CASE OpenBills(d) # {}
  <2> DEFINE b == CHOOSE b \in OpenBills(d) : TRUE
  <2>1. b \in OpenBills(d)
    BY <1>2
  <2>2. RefreshOpenBill(d, d) = ApplyAmounts(d, b, d.discount[b], d.taxed[b], d)
    BY <1>2 DEF RefreshOpenBill, Refresh
  <2> HIDE DEF b
  <2>3. b \in Bill /\ OpenBills(d) \subseteq {b}
    BY <2>1 DEF OpenBills, AtMostOneOpen
  <2>4. FreshRows(ApplyAmounts(d, b, d.discount[b], d.taxed[b], d))
    BY <2>3, AppliedFresh
  <2> QED
    BY <2>2, <2>4
<1> QED
  BY <1>1, <1>2

\* What a handler leaves in its request.
LEMMA ChangeLeaves ==
  ASSUME NEW w \in Worker, DOMAIN req = Worker, NEW op, NEW o, NEW n, Change(w, op, o, n)
  PROVE  req'[w].op = op /\ req'[w].loaded = o /\ req'[w].new = n
  BY DEF Change

\* The edits of lines: each refreshes the open bill, or sends lines that were
\* billed already.
LEMMA EditFresh ==
  ASSUME NEW w \in Worker, DOMAIN req = Worker, Tables(OrderFirst(w)),
         AddLine(w) \/ UpdateLine(w) \/ CancelLine(w) \/ SendKot(w),
         FreshRows(req'[w].loaded)
  PROVE  FreshRows(req'[w].new)
<1> DEFINE o == OrderFirst(w)
<1>0. Tables(o)
  OBVIOUS
<1> HIDE DEF o
<1>1. CASE AddLine(w)
  <2>1. PICK l \in Line, amount \in Amount :
          LET n == [o EXCEPT !.lineStatus[l] = "PENDING_KOT", !.lineTotal[l] = amount]
          IN  Change(w, "add_line", o, RefreshOpenBill(n, n))
    BY <1>1 DEF AddLine, o
  <2> DEFINE n == [o EXCEPT !.lineStatus[l] = "PENDING_KOT", !.lineTotal[l] = amount]
  <2>2. Tables(n) /\ n.billStatus = o.billStatus
    BY <1>0, SettlementAssumption DEF Tables, Columns
  <2>3. Change(w, "add_line", o, RefreshOpenBill(n, n))
    BY <2>1
  <2> HIDE DEF n
  <2>4. AtMostOneOpen(n)
    BY <1>1, <2>2 DEF AddLine, o, AtMostOneOpen, OpenBills
  <2> QED
    BY <2>2, <2>3, <2>4, RefreshedFresh, ChangeLeaves
<1>2. CASE UpdateLine(w)
  <2>1. PICK l \in Billable(o), amount \in Amount :
          LET n == [o EXCEPT !.lineTotal[l] = amount]
          IN  Change(w, "update_line", o, RefreshOpenBill(n, n))
    BY <1>2 DEF UpdateLine, o
  <2> DEFINE n == [o EXCEPT !.lineTotal[l] = amount]
  <2>2. Tables(n) /\ n.billStatus = o.billStatus
    BY <1>0, SettlementAssumption DEF Tables, Columns
  <2>3. Change(w, "update_line", o, RefreshOpenBill(n, n))
    BY <2>1
  <2> HIDE DEF n
  <2>4. AtMostOneOpen(n)
    BY <1>2, <2>2 DEF UpdateLine, o, AtMostOneOpen, OpenBills
  <2> QED
    BY <2>2, <2>3, <2>4, RefreshedFresh, ChangeLeaves
<1>3. CASE CancelLine(w)
  <2>1. PICK l \in Billable(o) :
          LET n == [o EXCEPT !.lineStatus[l] = "CANCELLED"]
          IN  Change(w, "cancel_line", o, RefreshOpenBill(n, n))
    BY <1>3 DEF CancelLine, o
  <2> DEFINE n == [o EXCEPT !.lineStatus[l] = "CANCELLED"]
  <2>2. Tables(n) /\ n.billStatus = o.billStatus
    BY <1>0 DEF Tables, Columns
  <2>3. Change(w, "cancel_line", o, RefreshOpenBill(n, n))
    BY <2>1
  <2> HIDE DEF n
  <2>4. AtMostOneOpen(n)
    BY <1>3, <2>2 DEF CancelLine, o, AtMostOneOpen, OpenBills
  <2> QED
    BY <2>2, <2>3, <2>4, RefreshedFresh, ChangeLeaves
<1>4. CASE SendKot(w)
  <2>1. PICK S \in SUBSET {l \in Line : o.lineStatus[l] = "PENDING_KOT"} :
          Change(w, "send_kot", o,
            [o EXCEPT !.lineStatus =
               [l \in Line |-> IF l \in S THEN "IN_KOT" ELSE @[l]]])
    BY <1>4 DEF SendKot, o
  <2> DEFINE n == [o EXCEPT !.lineStatus =
                     [l \in Line |-> IF l \in S THEN "IN_KOT" ELSE @[l]]]
  <2>2. req'[w].loaded = o /\ req'[w].new = n
    BY <2>1, ChangeLeaves
  <2>3. /\ n.lineTotal = o.lineTotal /\ n.charge = o.charge
        /\ n.type = o.type /\ n.billStatus = o.billStatus /\ n.discount = o.discount
        /\ n.taxed = o.taxed /\ n.grand = o.grand
        /\ \A l \in Line : n.lineStatus[l] = IF l \in S THEN "IN_KOT" ELSE o.lineStatus[l]
    BY <1>0 DEF Tables, Columns
  <2> HIDE DEF n
  <2>4. Billable(n) = Billable(o)
    BY <2>3 DEF Billable
  <2>5. Subtotal(n) = Subtotal(o) /\ OpenBills(n) = OpenBills(o)
    BY <2>3, <2>4 DEF Subtotal, OpenBills
  <2> QED
    BY <2>2, <2>3, <2>5, TotalSame DEF FreshRows
<1> QED
  BY <1>1, <1>2, <1>3, <1>4

\* The handlers of the bill: the bill they leave open is the one they just
\* computed, and one they settle was the only one open.
LEMMA BillFreshened ==
  ASSUME NEW w \in Worker, DOMAIN req = Worker,
         Tables(OrderFirst(w)), Tables(BillFirst(w)), Good(BillFirst(w)),
         CreateOrRefreshBill(w) \/ AddBillPayment(w)
  PROVE  FreshRows(req'[w].new)
<1>1. CASE CreateOrRefreshBill(w)
  <2> DEFINE o == OrderFirst(w)
  <2>1. Tables(o) /\ AtMostOneOpen(o)
    BY <1>1 DEF CreateOrRefreshBill
  <2>2. PICK b \in Bill, disc \in Discount, taxes \in BOOLEAN :
          /\ OpenBills(o) # {} => b \in OpenBills(o)
          /\ Change(w, "create_or_refresh_bill", o,
               ApplyAmounts([o EXCEPT !.billStatus[b] = "OPEN"], b, disc, taxes, o))
    BY <1>1 DEF CreateOrRefreshBill
  <2> HIDE DEF o
  <2> DEFINE m == [o EXCEPT !.billStatus[b] = "OPEN"]
  <2>3. /\ Tables(m)
        /\ m.lineStatus = o.lineStatus /\ m.lineTotal = o.lineTotal /\ m.charge = o.charge
        /\ m.type = o.type
        /\ \A c \in Bill : c # b => m.billStatus[c] = o.billStatus[c]
    BY <2>1 DEF Tables, Columns
  <2>4. Change(w, "create_or_refresh_bill", o, ApplyAmounts(m, b, disc, taxes, o))
    BY <2>2
  <2> HIDE DEF m
  <2>5. OpenBills(m) \subseteq {b}
    BY <2>1, <2>2, <2>3 DEF OpenBills, AtMostOneOpen
  <2>6. Subtotal(o) = Subtotal(m)
    BY <2>3, SubtotalSame
  <2>7. FreshRows(ApplyAmounts(m, b, disc, taxes, o))
    BY <2>3, <2>5, <2>6, AppliedFresh
  <2> QED
    BY <2>4, <2>7, ChangeLeaves
<1>2. CASE AddBillPayment(w)
  <2> DEFINE o == BillFirst(w)
  <2>1. Tables(o) /\ AtMostOneOpen(o)
    BY <1>2 DEF AddBillPayment, OrderOpen, Good
  <2>2. PICK b \in OpenBills(o), amount \in Amount :
          LET fresh == Refresh(o, b, o)
              paidUp == [fresh EXCEPT !.paid[b] = @ + amount]
          IN Change(w, "add_bill_payment", o,
                    IF paidUp.paid[b] = fresh.grand[b] THEN Settle(paidUp, b)
                    ELSE paidUp)
    BY <1>2 DEF AddBillPayment
  <2> HIDE DEF o
  <2> DEFINE fresh == ApplyAmounts(o, b, o.discount[b], o.taxed[b], o)
             p == [fresh EXCEPT !.paid[b] = @ + amount]
             n == IF p.paid[b] = fresh.grand[b] THEN Settle(p, b) ELSE p
  <2>3. Change(w, "add_bill_payment", o, n)
    BY <2>2 DEF Refresh
  <2>4. b \in Bill /\ amount \in Nat
    BY SettlementAssumption DEF OpenBills
  <2>5. OpenBills(o) \subseteq {b}
    BY <2>1 DEF AtMostOneOpen
  <2>6. Tables(fresh) /\ fresh.billStatus = o.billStatus /\ FreshRows(fresh)
    <3>1. Kept(o, fresh)
      BY <2>1, ApplyAmountsRows
    <3> QED
      BY <2>1, <2>4, <2>5, <3>1, AppliedFresh DEF Kept
  <2>7. Tables(p) /\ p.billStatus = o.billStatus /\ FreshRows(p)
    <3> DEFINE q == [fresh.paid EXCEPT ![b] = @ + amount]
    <3>1. p = [fresh EXCEPT !.paid = q]
      OBVIOUS
    <3> HIDE DEF fresh
    <3>2. q \in [Bill -> Int]
      BY <2>4, <2>6 DEF Tables
    <3> HIDE DEF q, p
    <3>3. /\ Tables(p) /\ p.charge = fresh.charge /\ p.type = fresh.type
          /\ p.taxed = fresh.taxed
          /\ p.lineStatus = fresh.lineStatus /\ p.lineTotal = fresh.lineTotal
          /\ p.billStatus = fresh.billStatus /\ p.discount = fresh.discount
          /\ p.grand = fresh.grand
      BY <2>6, <3>1, <3>2 DEF Tables, Columns
    <3>4. Subtotal(p) = Subtotal(fresh) /\ OpenBills(p) = OpenBills(fresh)
      BY <3>3, SubtotalSame DEF OpenBills
    <3> QED
      BY <2>6, <3>3, <3>4, TotalSame DEF FreshRows
  <2> HIDE DEF fresh, p
  <2>8. FreshRows(Settle(p, b))
    <3> DEFINE s == Settle(p, b)
    <3>1. s.billStatus[b] = "SETTLED" /\ \A c \in Bill : c # b => s.billStatus[c] = o.billStatus[c]
      BY <2>4, <2>7 DEF Settle, Tables, Columns
    <3> HIDE DEF s
    <3>2. OpenBills(s) = {}
      BY <2>5, <3>1 DEF OpenBills
    <3> QED
      BY <3>2 DEF FreshRows, s
  <2>9. FreshRows(n)
    BY <2>7, <2>8
  <2> HIDE DEF n
  <2> QED
    BY <2>3, <2>9, ChangeLeaves
<1> QED
  BY <1>1, <1>2

\* A handler of the other kind writes a fresh bill where it found one.
LEMMA HandleFresh ==
  ASSUME SerialInv, NEW w \in Worker, Handle(w),
         req'[w].op \notin LeavesBillBehind, FreshRows(req'[w].loaded)
  PROVE  FreshRows(req'[w].new)
<1>1. IsReading(w) /\ req[w].seen = db /\ Tables(db) /\ Good(db) /\ DOMAIN req = Worker
  BY DEF Handle, SerialInv, SerialReadingOK, SerialRowsOK
<1>2. \A o \in {OrderFirst(w), BillFirst(w)} : Tables(o) /\ Agree(o, db)
  BY <1>1 DEF OrderFirst, BillFirst, WithBills, Tables, Columns, Agree
<1>3. Good(BillFirst(w))
  BY <1>1, <1>2, GoodTransfers
<1>4. CASE AddLine(w) \/ UpdateLine(w) \/ CancelLine(w) \/ SendKot(w)
  BY <1>1, <1>2, <1>4, EditFresh
<1>5. CASE RemoveLine(w) \/ UpdateOrder(w)
  <2>1. \E o, n : Change(w, "remove_line", o, n) \/ Change(w, "update_order", o, n)
    BY <1>5 DEF RemoveLine, UpdateOrder
  <2> QED
    BY <1>1, <2>1, ChangeLeaves DEF LeavesBillBehind
<1>6. CASE CreateOrRefreshBill(w) \/ AddBillPayment(w)
  BY <1>1, <1>2, <1>3, <1>6, BillFreshened
<1>7. CASE SettleBill(w) \/ CancelOrder(w)
  <2>1. PICK op, o, n : Change(w, op, o, n) /\ n.status # "OPEN"
    <3>1. CASE SettleBill(w)
      <4>1. PICK o, p, b : Change(w, "settle_bill", o, Settle(p, b)) /\ o = BillFirst(w)
                             /\ Settle(p, b).status = "SETTLED"
        <5> DEFINE o == BillFirst(w)
        <5>1. Tables(o)
          BY <1>2
        <5>2. PICK b \in OpenBills(o), disc \in Discount, taxes \in BOOLEAN,
             amount \in Amount \cup {0} :
                LET fresh == ApplyAmounts(o, b, disc, taxes, o)
                    paidUp == [fresh EXCEPT !.paid[b] = @ + amount]
                IN Change(w, "settle_bill", o, Settle(paidUp, b))
          BY <3>1 DEF SettleBill
        <5> HIDE DEF o
        <5> DEFINE p == [ApplyAmounts(o, b, disc, taxes, o) EXCEPT !.paid[b] = @ + amount]
        <5>3. b \in Bill /\ amount \in Nat
          BY SettlementAssumption DEF OpenBills
        <5>4. Tables(p)
          BY <5>1, <5>3, AppliedThenPaid
        <5>5. Change(w, "settle_bill", o, Settle(p, b))
          BY <5>2
        <5> HIDE DEF p
        <5>6. Settle(p, b).status = "SETTLED"
          BY <5>4 DEF Settle, Tables, Columns
        <5> QED
          BY <5>5, <5>6 DEF o
      <4> QED
        BY <4>1
    <3>2. CASE CancelOrder(w)
      <4> DEFINE o == OrderFirst(w)
                 n == [o EXCEPT !.status = "CANCELLED",
                         !.lineStatus = [l \in Line |->
                            IF l \in Billable(o) THEN "CANCELLED" ELSE @[l]],
                         !.billStatus = [b \in Bill |->
                            IF b \in OpenBills(o) THEN "VOID" ELSE @[b]]]
      <4>1. Tables(o) /\ Change(w, "cancel_order", o, n)
        BY <1>2, <3>2 DEF CancelOrder
      <4> HIDE DEF o
      <4>2. n.status = "CANCELLED"
        BY <4>1 DEF Tables, Columns
      <4> HIDE DEF n
      <4> QED
        BY <4>1, <4>2
    <3> QED
      BY <1>7, <3>1, <3>2
  <2>2. req'[w].new = n /\ IsBusy(w)'
    <3>1. req'[w].op = op /\ req'[w].new = n
      BY <1>1, <2>1, ChangeLeaves
    <3>2. \E oq \in Operation : req'[w].op = oq
      BY <1>1, <1>2, HandleMove, ChangeLeaves
    <3> QED
      BY <3>1, <3>2 DEF IsBusy, IsIdle, IsReading, Operation
  <2>3. Good(n)
    BY <2>2, SerialHandleKeeps DEF SerialInv, SerialBusyOK
  <2>4. OpenBills(n) = {}
    BY <2>1, <2>3 DEF Good
  <2> QED
    BY <2>2, <2>4 DEF FreshRows
<1> QED
  BY <1>4, <1>5, <1>6, <1>7 DEF Handle

\* Serial requests keep what a handler is about to write fresh.
LEMMA FreshInductive == SerialSpec => []FreshInv
<1>1. Init => FreshInv
  BY DEF Init, FreshInv, IsBusy, IsIdle, Idle
<1>2. SerialInv /\ FreshInv /\ [SerialNext]_vars => FreshInv'
  <2> SUFFICES ASSUME SerialInv, FreshInv, [SerialNext]_vars PROVE FreshInv'
    OBVIOUS
  <2>1. CASE UNCHANGED vars
    BY <2>1 DEF vars, FreshInv, IsBusy, IsIdle, IsReading
  <2>2. CASE SerialNext
    <3>1. PICK w \in Worker : Read(w) \/ Handle(w) \/ Commit(w) \/ Abort(w)
      BY <2>2 DEF SerialNext
    <3>2. DOMAIN req = Worker
      BY DEF SerialInv
    <3>3. \A v \in Worker : v # w => req'[v] = req[v]
      <4>1. CASE Handle(w)
        <5>1. IsReading(w) /\ req[w].seen = db /\ Tables(db)
          BY <4>1 DEF Handle, SerialInv, SerialReadingOK, SerialRowsOK
        <5>2. Tables(OrderFirst(w)) /\ Tables(BillFirst(w))
          BY <5>1 DEF OrderFirst, BillFirst, WithBills, Tables, Columns
        <5> QED
          BY <3>2, <4>1, <5>2, HandleMove DEF Change
      <4> QED
        BY <3>1, <3>2, <4>1 DEF Read, Commit, Abort
    <3>4. ASSUME NEW v \in Worker, v # w, IsBusy(v)', req'[v].op \notin LeavesBillBehind,
                 FreshRows(req'[v].loaded)
          PROVE  FreshRows(req'[v].new)
      BY <3>3, <3>4 DEF FreshInv, IsBusy, IsIdle, IsReading
    <3>5. ASSUME IsBusy(w)', req'[w].op \notin LeavesBillBehind, FreshRows(req'[w].loaded)
          PROVE  FreshRows(req'[w].new)
      <4>1. ~ Read(w) /\ ~ Commit(w) /\ ~ Abort(w)
        BY <3>2, <3>5 DEF Read, Commit, Abort, IsBusy, IsIdle, IsReading, Idle
      <4> QED
        BY <3>1, <3>5, <4>1, HandleFresh
    <3> QED
      BY <3>4, <3>5 DEF FreshInv
  <2> QED
    BY <2>1, <2>2
<1> QED
  BY <1>1, <1>2, SerialInductive, PTL DEF SerialSpec

\* Whatever the orders' types are taxed, requests about an order, one at a time,
\* leave its open bill outdated only by removing a pending line or by changing the
\* table time or the type of the order; the other handlers commit the bill they
\* just refreshed.
THEOREM OthersRefreshTheBill == SerialSpec => StaleOnlyByRemoveOrUpdate
<1> DEFINE Outdates(w) == /\ req'[w] # req[w]
                          /\ req[w].op \in {"remove_line", "update_order"}
           A == BillFresh /\ ~ BillFresh' => \E w \in Worker : Outdates(w)
<1>1. SerialInv /\ FreshInv /\ [SerialNext]_vars => [A]_vars
  <2> SUFFICES ASSUME SerialInv, FreshInv, SerialNext, BillFresh, ~ BillFresh'
               PROVE  \E w \in Worker : Outdates(w)
    OBVIOUS
  <2>1. PICK w \in Worker : Read(w) \/ Handle(w) \/ Commit(w) \/ Abort(w)
    BY DEF SerialNext
  <2>2. db' # db
    BY DEF BillFresh
  <2>3. Commit(w)
    <3>1. ~ Read(w) /\ ~ Abort(w)
      BY <2>2 DEF Read, Abort
    <3>2. ~ Handle(w)
      <4> SUFFICES ASSUME Handle(w) PROVE FALSE
        OBVIOUS
      <4>1. IsReading(w) /\ req[w].seen = db /\ Tables(db)
        BY DEF Handle, SerialInv, SerialReadingOK, SerialRowsOK
      <4>2. Tables(OrderFirst(w)) /\ Tables(BillFirst(w))
        BY <4>1 DEF OrderFirst, BillFirst, WithBills, Tables, Columns
      <4> QED
        BY <2>2, <4>2, HandleMove DEF Change
    <3> QED
      BY <2>1, <3>1, <3>2
  <2>4. /\ IsBusy(w) /\ Agree(req[w].loaded, db)
        /\ Agree(db', req[w].new)
    BY <2>3, SerialCommitKeeps DEF Commit, SerialInv, SerialBusyOK
  <2>5. FreshRows(req[w].loaded)
    BY <2>4, FreshTransfers DEF BillFresh, FreshRows
  <2>6. ~ FreshRows(req[w].new)
    <3>1. ~ FreshRows(db')
      BY DEF BillFresh, FreshRows, OpenBills, GrandTotal, Taxed, Subtotal, Billable
    <3> QED
      BY <2>4, <3>1, FreshTransfers
  <2>7. req[w].op \in {"remove_line", "update_order"}
    BY <2>4, <2>5, <2>6 DEF FreshInv, LeavesBillBehind
  <2>8. req'[w] # req[w]
    BY <2>3, <2>4 DEF Commit, SerialInv, IsBusy, IsIdle, Idle
  <2> QED
    BY <2>7, <2>8
<1> QED
  BY <1>1, SerialInductive, FreshInductive, PTL DEF SerialSpec, StaleOnlyByRemoveOrUpdate

-----------------------------------------------------------------------------
(* Types, whatever overlaps *)

\* What a handler is about to write has the columns' types, and payments are
\* only ever added: their difference is what the commit adds to the database.
TypeInv ==
  /\ TypeOK
  /\ \A w \in Worker : IsBusy(w) =>
       \A b \in Bill : req[w].loaded.paid[b] <= req[w].new.paid[b]

\* What is rounded to the paisa is a natural number.
LEMMA MoneyNat ==
  ASSUME NEW a \in Nat, NEW b \in Nat \ {0}
  PROVE  money(a, b) \in Nat
<1>1. a \div b \in Nat
  BY Z3
<1> QED
  BY <1>1 DEF money

LEMMA SubtotalTyped ==
  ASSUME NEW d \in Rows
  PROVE  Subtotal(d) \in Nat
<1>1. IsFiniteSet(Billable(d))
  BY SettlementAssumption, FS_Subset DEF Billable
<1>2. \A l \in Billable(d) : d.lineTotal[l] \in Nat
  BY DEF Billable, Rows
<1>3. SumFunctionOnSet(d.lineTotal, Billable(d)) \in Nat
  BY <1>1, <1>2, SumNat
<1> QED
  BY <1>3 DEF Subtotal, Rows

\* The amounts of a bill are natural numbers: the discount is clamped.
LEMMA AmountsTyped ==
  ASSUME NEW d \in Rows, NEW b \in Bill, NEW disc \in Nat, NEW taxes \in BOOLEAN,
         NEW basis \in Rows
  PROVE  /\ ApplyAmounts(d, b, disc, taxes, basis) \in Rows
         /\ ApplyAmounts(d, b, disc, taxes, basis).paid = d.paid
         /\ GrandTotal(basis, disc, taxes) \in Nat
<1>1. Subtotal(basis) \in Nat
  BY SubtotalTyped
<1>2. /\ Clamped(disc, Subtotal(basis)) \in Nat
      /\ Subtotal(basis) - Clamped(disc, Subtotal(basis)) \in Nat
  BY <1>1 DEF Clamped
<1>3. Rate[basis.type] \in Nat
  BY SettlementAssumption DEF Rows
<1>4. \A x, y \in Nat : money(x * y, Hundred) \in Nat
  BY MoneyNat DEF Hundred
<1>5. GrandTotal(basis, disc, taxes) \in Nat /\ Taxed(basis, taxes) \in BOOLEAN
  BY <1>2, <1>3, <1>4 DEF GrandTotal, Taxed
<1> QED
  BY <1>2, <1>5 DEF ApplyAmounts, Rows

LEMMA RefreshTyped ==
  ASSUME NEW d \in Rows, NEW b \in Bill, NEW basis \in Rows
  PROVE  Refresh(d, b, basis) \in Rows /\ Refresh(d, b, basis).paid = d.paid
<1>1. d.discount[b] \in Nat /\ d.taxed[b] \in BOOLEAN
  BY DEF Rows
<1> QED
  BY <1>1, AmountsTyped DEF Refresh

LEMMA RefreshOpenBillTyped ==
  ASSUME NEW d \in Rows, NEW basis \in Rows
  PROVE  RefreshOpenBill(d, basis) \in Rows /\ RefreshOpenBill(d, basis).paid = d.paid
<1>1. CASE OpenBills(d) = {}
  BY <1>1 DEF RefreshOpenBill
<1>2. CASE OpenBills(d) # {}
  <2>1. (CHOOSE b \in OpenBills(d) : TRUE) \in Bill
    BY <1>2 DEF OpenBills
  <2> QED
    BY <1>2, <2>1, RefreshTyped DEF RefreshOpenBill
<1> QED
  BY <1>1, <1>2

\* n is what a handler may make of the rows o.
Writes(o, n) ==
  /\ o \in Rows /\ n \in Rows
  /\ \A b \in Bill : o.paid[b] <= n.paid[b]

\* Rows that keep their payments may be written.
LEMMA SamePayments ==
  ASSUME NEW o \in Rows, NEW n \in Rows, n.paid = o.paid
  PROVE  Writes(o, n)
  BY DEF Writes, Rows

\* Every handler prepares rows that may be written.
LEMMA HandleTyped ==
  ASSUME TypeInv, NEW w \in Worker, Handle(w)
  PROVE  \E op \in Operation : \E o, n : Writes(o, n) /\ Change(w, op, o, n)
<1> DEFINE o == OrderFirst(w)
           p == BillFirst(w)
           Goal == \E op \in Operation : \E x, n : Writes(x, n) /\ Change(w, op, x, n)
<1>1. req[w].seen \in Rows /\ db \in Rows
  BY DEF Handle, IsReading, TypeInv, TypeOK, Busy, Reading, Idle, Operation
<1>2. o \in Rows /\ p \in Rows
  BY <1>1 DEF OrderFirst, BillFirst, WithBills, Rows
<1> HIDE DEF o, p, Goal
<1> USE DEF Operation
<1>3. CASE AddLine(w)
  <2>1. PICK l \in Line, amount \in Amount :
          LET n == [o EXCEPT !.lineStatus[l] = "PENDING_KOT", !.lineTotal[l] = amount]
          IN  Change(w, "add_line", o, RefreshOpenBill(n, n))
    BY <1>3 DEF AddLine, o
  <2> DEFINE n == [o EXCEPT !.lineStatus[l] = "PENDING_KOT", !.lineTotal[l] = amount]
  <2>2. n \in Rows /\ n.paid = o.paid
    BY <1>2, SettlementAssumption DEF Rows, LineStatus
  <2>3. Change(w, "add_line", o, RefreshOpenBill(n, n))
    BY <2>1
  <2> HIDE DEF n
  <2>4. Writes(o, RefreshOpenBill(n, n))
    BY <1>2, <2>2, RefreshOpenBillTyped, SamePayments
  <2> QED
    BY <2>3, <2>4 DEF Goal
<1>4. CASE UpdateLine(w)
  <2>1. PICK l \in Billable(o), amount \in Amount :
          LET n == [o EXCEPT !.lineTotal[l] = amount]
          IN  Change(w, "update_line", o, RefreshOpenBill(n, n))
    BY <1>4 DEF UpdateLine, o
  <2> DEFINE n == [o EXCEPT !.lineTotal[l] = amount]
  <2>2. n \in Rows /\ n.paid = o.paid
    BY <1>2, SettlementAssumption DEF Rows, Billable
  <2>3. Change(w, "update_line", o, RefreshOpenBill(n, n))
    BY <2>1
  <2> HIDE DEF n
  <2>4. Writes(o, RefreshOpenBill(n, n))
    BY <1>2, <2>2, RefreshOpenBillTyped, SamePayments
  <2> QED
    BY <2>3, <2>4 DEF Goal
<1>5. CASE RemoveLine(w)
  <2>1. PICK l \in Line :
          Change(w, "remove_line", o,
                 RefreshOpenBill([o EXCEPT !.lineStatus[l] = "DELETED"], o))
    BY <1>5 DEF RemoveLine, o
  <2> DEFINE n == [o EXCEPT !.lineStatus[l] = "DELETED"]
  <2>2. n \in Rows /\ n.paid = o.paid
    BY <1>2 DEF Rows, LineStatus
  <2>3. Change(w, "remove_line", o, RefreshOpenBill(n, o))
    BY <2>1
  <2> HIDE DEF n
  <2>4. Writes(o, RefreshOpenBill(n, o))
    BY <1>2, <2>2, RefreshOpenBillTyped, SamePayments
  <2> QED
    BY <2>3, <2>4 DEF Goal
<1>6. CASE CancelLine(w)
  <2>1. PICK l \in Billable(o) :
          LET n == [o EXCEPT !.lineStatus[l] = "CANCELLED"]
          IN  Change(w, "cancel_line", o, RefreshOpenBill(n, n))
    BY <1>6 DEF CancelLine, o
  <2> DEFINE n == [o EXCEPT !.lineStatus[l] = "CANCELLED"]
  <2>2. n \in Rows /\ n.paid = o.paid
    BY <1>2 DEF Rows, LineStatus, Billable
  <2>3. Change(w, "cancel_line", o, RefreshOpenBill(n, n))
    BY <2>1
  <2> HIDE DEF n
  <2>4. Writes(o, RefreshOpenBill(n, n))
    BY <1>2, <2>2, RefreshOpenBillTyped, SamePayments
  <2> QED
    BY <2>3, <2>4 DEF Goal
<1>7. CASE SendKot(w)
  <2>1. PICK S \in SUBSET {l \in Line : o.lineStatus[l] = "PENDING_KOT"} :
          Change(w, "send_kot", o,
            [o EXCEPT !.lineStatus = [l \in Line |-> IF l \in S THEN "IN_KOT" ELSE @[l]]])
    BY <1>7 DEF SendKot, o
  <2> DEFINE n == [o EXCEPT !.lineStatus =
                     [l \in Line |-> IF l \in S THEN "IN_KOT" ELSE @[l]]]
  <2>2. n \in Rows /\ n.paid = o.paid
    BY <1>2 DEF Rows, LineStatus
  <2> QED
    BY <1>2, <2>1, <2>2, SamePayments DEF Goal
<1>8. CASE UpdateOrder(w)
  <2>1. PICK type \in OrderType, c \in Charge :
          Change(w, "update_order", o, [o EXCEPT !.type = type, !.charge = c])
    BY <1>8 DEF UpdateOrder, o
  <2> DEFINE n == [o EXCEPT !.type = type, !.charge = c]
  <2>2. n \in Rows /\ n.paid = o.paid
    BY <1>2, SettlementAssumption DEF Rows
  <2> QED
    BY <1>2, <2>1, <2>2, SamePayments DEF Goal
<1>9. CASE CreateOrRefreshBill(w)
  <2>1. PICK b \in Bill, disc \in Discount, taxes \in BOOLEAN :
          Change(w, "create_or_refresh_bill", o,
            ApplyAmounts([o EXCEPT !.billStatus[b] = "OPEN"], b, disc, taxes, o))
    BY <1>9 DEF CreateOrRefreshBill, o
  <2> DEFINE n == [o EXCEPT !.billStatus[b] = "OPEN"]
  <2>2. n \in Rows /\ n.paid = o.paid /\ disc \in Nat
    BY <1>2, SettlementAssumption DEF Rows, BillStatus
  <2>3. Change(w, "create_or_refresh_bill", o, ApplyAmounts(n, b, disc, taxes, o))
    BY <2>1
  <2> HIDE DEF n
  <2>4. Writes(o, ApplyAmounts(n, b, disc, taxes, o))
    BY <1>2, <2>2, AmountsTyped, SamePayments
  <2> QED
    BY <2>3, <2>4 DEF Goal
<1>10. ASSUME NEW fresh \in Rows, fresh.paid = p.paid, NEW b \in Bill, NEW amount \in Nat
       PROVE  LET paidUp == [fresh EXCEPT !.paid[b] = @ + amount]
              IN  Writes(p, paidUp) /\ Writes(p, Settle(paidUp, b))
  <2> DEFINE paidUp == [fresh EXCEPT !.paid[b] = @ + amount]
  <2>1. paidUp \in Rows
    BY DEF Rows
  <2>4. Settle(paidUp, b) \in Rows
    <3> HIDE DEF paidUp
    <3> QED BY <2>1 DEF Settle, Rows, OrderStatus, BillStatus
  <2>2. \A c \in Bill : p.paid[c] <= paidUp.paid[c]
    BY <1>2, <1>10 DEF Rows
  <2>3. Settle(paidUp, b).paid = paidUp.paid
    BY <2>1 DEF Settle, Rows
  <2> HIDE DEF paidUp
  <2>5. Writes(p, paidUp) /\ Writes(p, Settle(paidUp, b))
    BY <1>2, <2>1, <2>2, <2>3, <2>4 DEF Writes
  <2> QED
    BY <2>5 DEF paidUp
<1>11. CASE AddBillPayment(w)
  <2>1. PICK b \in OpenBills(p), amount \in Amount :
          LET fresh == Refresh(p, b, p)
              paidUp == [fresh EXCEPT !.paid[b] = @ + amount]
          IN  Change(w, "add_bill_payment", p,
                     IF paidUp.paid[b] = fresh.grand[b] THEN Settle(paidUp, b) ELSE paidUp)
    BY <1>11 DEF AddBillPayment, p
  <2>2. b \in Bill /\ amount \in Nat
    BY SettlementAssumption DEF OpenBills
  <2> DEFINE fresh == Refresh(p, b, p)
  <2>3. fresh \in Rows /\ fresh.paid = p.paid
    BY <1>2, <2>2, RefreshTyped
  <2> HIDE DEF fresh
  <2> DEFINE paidUp == [fresh EXCEPT !.paid[b] = @ + amount]
  <2>4. Writes(p, paidUp) /\ Writes(p, Settle(paidUp, b))
    BY <1>10, <2>2, <2>3
  <2>5. \/ Change(w, "add_bill_payment", p, Settle(paidUp, b))
        \/ Change(w, "add_bill_payment", p, paidUp)
    BY <2>1 DEF fresh
  <2> QED
    BY <2>4, <2>5 DEF Goal
<1>12. CASE SettleBill(w)
  <2>1. PICK b \in OpenBills(p), disc \in Discount, taxes \in BOOLEAN,
             amount \in Amount \cup {0} :
          LET fresh == ApplyAmounts(p, b, disc, taxes, p)
              paidUp == [fresh EXCEPT !.paid[b] = @ + amount]
          IN  Change(w, "settle_bill", p, Settle(paidUp, b))
    BY <1>12 DEF SettleBill, p
  <2>2. b \in Bill /\ amount \in Nat /\ disc \in Nat
    BY SettlementAssumption DEF OpenBills
  <2> DEFINE fresh == ApplyAmounts(p, b, disc, taxes, p)
  <2>3. fresh \in Rows /\ fresh.paid = p.paid
    BY <1>2, <2>2, AmountsTyped
  <2> HIDE DEF fresh
  <2> DEFINE paidUp == [fresh EXCEPT !.paid[b] = @ + amount]
  <2>4. Writes(p, Settle(paidUp, b))
    BY <1>10, <2>2, <2>3
  <2>5. Change(w, "settle_bill", p, Settle(paidUp, b))
    BY <2>1 DEF fresh
  <2> QED
    BY <2>4, <2>5 DEF Goal
<1>13. CASE CancelOrder(w)
  <2> DEFINE n == [o EXCEPT !.status = "CANCELLED",
                    !.lineStatus = [l \in Line |->
                       IF l \in Billable(o) THEN "CANCELLED" ELSE @[l]],
                    !.billStatus = [b \in Bill |->
                       IF b \in OpenBills(o) THEN "VOID" ELSE @[b]]]
  <2>1. Change(w, "cancel_order", o, n)
    BY <1>13 DEF CancelOrder, o
  <2>2. n \in Rows /\ n.paid = o.paid
    BY <1>2 DEF Rows, OrderStatus, LineStatus, BillStatus
  <2> QED
    BY <1>2, <2>1, <2>2, SamePayments DEF Goal
<1> QED
  BY <1>3, <1>4, <1>5, <1>6, <1>7, <1>8, <1>9, <1>11, <1>12, <1>13 DEF Handle, Goal

\* Merging what a request changed into the rows there are keeps their types.
LEMMA MergeTyped ==
  ASSUME TypeInv, NEW w \in Worker, IsBusy(w)
  PROVE  MergedRows(req[w]) \in Rows
<1> DEFINE r == req[w]
<1>1. r \in Busy
  BY DEF TypeInv, TypeOK, IsBusy, IsIdle, IsReading, Reading, Idle
<1>2. r.loaded \in Rows /\ r.new \in Rows /\ db \in Rows /\ serial \in Nat
  BY <1>1 DEF Busy, TypeInv, TypeOK
<1>3. \A b \in Bill : r.loaded.paid[b] <= r.new.paid[b]
  BY DEF TypeInv
<1> HIDE DEF r
<1>4. [b \in Bill |-> db.paid[b] + (r.new.paid[b] - r.loaded.paid[b])] \in [Bill -> Nat]
  BY <1>2, <1>3 DEF Rows
<1>5. [b \in Bill |-> IF b \in Numbered(r) THEN serial + 1 ELSE db.invoice[b]] \in [Bill -> Nat]
  BY <1>2 DEF Rows
<1>6. /\ WrittenColumn(db.lineStatus, r.loaded.lineStatus, r.new.lineStatus) \in [Line -> LineStatus]
      /\ WrittenColumn(db.lineTotal, r.loaded.lineTotal, r.new.lineTotal) \in [Line -> Nat]
      /\ WrittenColumn(db.billStatus, r.loaded.billStatus, r.new.billStatus) \in [Bill -> BillStatus]
      /\ WrittenColumn(db.discount, r.loaded.discount, r.new.discount) \in [Bill -> Nat]
      /\ WrittenColumn(db.taxed, r.loaded.taxed, r.new.taxed) \in [Bill -> BOOLEAN]
      /\ WrittenColumn(db.grand, r.loaded.grand, r.new.grand) \in [Bill -> Nat]
  BY <1>2 DEF WrittenColumn, Written, Rows
<1>7. /\ Written(db.status, r.loaded.status, r.new.status) \in OrderStatus
      /\ Written(db.type, r.loaded.type, r.new.type) \in OrderType
      /\ Written(db.charge, r.loaded.charge, r.new.charge) \in Nat
  BY <1>2 DEF Written, Rows
<1>8. MergedRows(r) \in Rows
  BY <1>4, <1>5, <1>6, <1>7 DEF MergedRows, Rows
<1> QED
  BY <1>8 DEF r

\* However requests overlap, every column keeps its type: totals, discounts
\* and payments never become negative.
THEOREM RowsTyped == Spec => []TypeOK
<1>1. Init => TypeInv
  <2> SUFFICES ASSUME Init PROVE TypeInv
    OBVIOUS
  <2>1. db \in Rows
    BY DEF Init, Rows, OrderStatus, LineStatus, BillStatus
  <2>2. \A w \in Worker : ~ IsBusy(w)
    BY DEF Init, IsBusy, IsIdle, Idle
  <2> QED
    BY <2>1, <2>2, SettlementAssumption DEF Init, TypeInv, TypeOK
<1>2. TypeInv /\ [Next]_vars => TypeInv'
  <2> SUFFICES ASSUME TypeInv, [Next]_vars PROVE TypeInv'
    OBVIOUS
  <2>1. ASSUME NEW w \in Worker, Read(w) PROVE TypeInv'
    <3>1. req'[w] = [op |-> "reading", seen |-> db] /\ req'[w] \in Reading
      BY <2>1 DEF Read, TypeInv, TypeOK, Reading
    <3>2. TypeOK'
      BY <2>1, <3>1, SettlementAssumption DEF Read, TypeInv, TypeOK
    <3>3. \A v \in Worker : IsBusy(v)' => v # w /\ req'[v] = req[v] /\ IsBusy(v)
      BY <2>1, <3>1 DEF Read, TypeInv, TypeOK, IsBusy, IsIdle, IsReading
    <3> QED
      BY <3>2, <3>3 DEF TypeInv
  <2>2. ASSUME NEW w \in Worker, Handle(w) PROVE TypeInv'
    <3>a. PICK op \in Operation : \E o, n : Writes(o, n) /\ Change(w, op, o, n)
      BY <2>2, HandleTyped
    <3>1. PICK o, n : Writes(o, n) /\ Change(w, op, o, n)
      BY <3>a
    <3>2. req'[w] = [op |-> op, loaded |-> o, new |-> n] /\ req'[w] \in Busy
      BY <3>1 DEF Change, Writes, Busy, TypeInv, TypeOK
    <3>3. TypeOK'
      BY <3>1, <3>2 DEF Change, TypeInv, TypeOK
    <3>4. \A v \in Worker \ {w} : req'[v] = req[v]
      BY <3>1 DEF Change, TypeInv, TypeOK
    <3> QED
      BY <3>1, <3>2, <3>3, <3>4 DEF TypeInv, Writes, IsBusy, IsIdle, IsReading
  <2>3. ASSUME NEW w \in Worker, Commit(w) \/ Abort(w) PROVE TypeInv'
    <3>1. req' = [req EXCEPT ![w] = Idle] /\ UNCHANGED started
      BY <2>3 DEF Commit, Abort
    <3>2. db' \in Rows /\ serial' \in Nat
      BY <2>3, MergeTyped DEF Commit, Abort, TypeInv, TypeOK
    <3>3. \A v \in Worker : IsBusy(v)' => v # w /\ req'[v] = req[v] /\ IsBusy(v)
      BY <3>1 DEF TypeInv, TypeOK, IsBusy, IsIdle, IsReading, Idle
    <3> QED
      BY <3>1, <3>2, <3>3 DEF TypeInv, TypeOK
  <2>4. CASE UNCHANGED vars
    BY <2>4 DEF vars, TypeInv, TypeOK, IsBusy, IsIdle, IsReading
  <2> QED
    BY <2>1, <2>2, <2>3, <2>4 DEF Next
<1>3. TypeInv => TypeOK
  BY DEF TypeInv
<1> QED
  BY <1>1, <1>2, <1>3, PTL DEF Spec

-----------------------------------------------------------------------------
(* The daily numbers: OutletCounters *)

\* A document is the work of a request whose transaction committed.
IssuedByCommitted ==
  \A doc \in issued : txn[doc.request].pc = "committed"

\* The inductive invariant. HolderIsNext is what makes it inductive: the next
\* number to be committed for a key is known before it is committed.
CountersInv ==
  /\ CountersTypeOK
  /\ HolderIsNext
  /\ GapFree
  /\ NoDuplicateNumbers
  /\ IssuedByCommitted

Numbers(docs, k, d) ==
  {doc.number : doc \in {x \in docs : x.kind = k /\ x.day = d}}

\* One more document adds its number to its own key and to no other.
LEMMA NumbersAdd ==
  ASSUME NEW docs, NEW doc, NEW k, NEW d, doc.kind = k, doc.day = d
  PROVE  Numbers(docs \cup {doc}, k, d) = Numbers(docs, k, d) \cup {doc.number}
  BY DEF Numbers

LEMMA NumbersKeep ==
  ASSUME NEW docs, NEW doc, NEW k, NEW d, ~ (doc.kind = k /\ doc.day = d)
  PROVE  Numbers(docs \cup {doc}, k, d) = Numbers(docs, k, d)
  BY DEF Numbers

-----------------------------------------------------------------------------
\* Every step of every request keeps the variables in their types.
THEOREM CountersTyped == CountersSpec => []CountersTypeOK
<1>1. CountersInit => CountersTypeOK
  BY LastDayAssumption DEF CountersInit, CountersTypeOK, RequestState, Phase, Day
<1>2. CountersTypeOK /\ [CountersNext]_counterVars => CountersTypeOK'
  <2> SUFFICES ASSUME CountersTypeOK, [CountersNext]_counterVars
               PROVE  CountersTypeOK'
    OBVIOUS
  <2> USE LastDayAssumption DEF CountersTypeOK, RequestState, Phase, Day, Document
  <2>1. ASSUME NEW r \in Request, Call(r)
        PROVE  CountersTypeOK'
    BY <2>1 DEF Call
  <2>2. ASSUME NEW r \in Request, LockRow(r)
        PROVE  CountersTypeOK'
    <3>1. counter[txn[r].kind][txn[r].day] + 1 \in Nat
      OBVIOUS
    <3>2. txn' \in [Request -> RequestState]
      BY <2>2, <3>1 DEF LockRow
    <3> QED
      BY <2>2, <3>2 DEF LockRow
  <2>3. ASSUME NEW r \in Request, FindNoRow(r)
        PROVE  CountersTypeOK'
    BY <2>3 DEF FindNoRow
  <2>4. ASSUME NEW r \in Request, InsertRow(r)
        PROVE  CountersTypeOK'
    BY <2>4 DEF InsertRow
  <2>5. ASSUME NEW r \in Request, InsertConflict(r)
        PROVE  CountersTypeOK'
    BY <2>5 DEF InsertConflict
  <2>6. ASSUME NEW r \in Request, CommitNumber(r)
        PROVE  CountersTypeOK'
    <3>1. counter' \in [Kind -> [Day -> Nat]]
      BY <2>6 DEF CommitNumber
    <3>2. txn' \in [Request -> RequestState]
      BY <2>6 DEF CommitNumber
    <3>3. issued' \subseteq Document
      BY <2>6 DEF CommitNumber
    <3> QED
      BY <2>6, <3>1, <3>2, <3>3 DEF CommitNumber
  <2>7. ASSUME NEW r \in Request, Rollback(r)
        PROVE  CountersTypeOK'
    BY <2>7 DEF Rollback
  <2>8. CASE Midnight
    BY <2>8 DEF Midnight
  <2>9. CASE UNCHANGED counterVars
    BY <2>9 DEF counterVars
  <2> QED
    BY <2>1, <2>2, <2>3, <2>4, <2>5, <2>6, <2>7, <2>8, <2>9 DEF CountersNext, Progress
<1> QED
  BY <1>1, <1>2, PTL DEF CountersSpec

-----------------------------------------------------------------------------
\* The steps that neither draw nor commit a number: the documents, the
\* counters and every request that holds a number stay as they are.
LEMMA QuietStep ==
  ASSUME CountersInv, CountersTypeOK',
         UNCHANGED <<counter, issued>>,
         \A r \in Request : txn'[r].pc = "holding" => txn'[r] = txn[r],
         \A r \in Request : txn[r].pc = "committed" => txn'[r].pc = "committed"
  PROVE  CountersInv'
<1>1. HolderIsNext'
  BY DEF CountersInv, HolderIsNext, OnKey
<1>2. GapFree'
  BY DEF CountersInv, GapFree
<1>3. NoDuplicateNumbers'
  BY DEF CountersInv, NoDuplicateNumbers
<1>4. IssuedByCommitted'
  BY DEF CountersInv, IssuedByCommitted, CountersTypeOK, Document
<1> QED
  BY <1>1, <1>2, <1>3, <1>4 DEF CountersInv

\* Drawing a number, from the locked row or by inserting the first row of the
\* day: the number is the successor of the committed one and the key was free.
LEMMA DrawStep ==
  ASSUME CountersInv, CountersTypeOK', NEW r \in Request,
         UNCHANGED <<counter, issued>>,
         txn[r].pc \in {"selecting", "inserting"},
         KeyFree(txn[r].kind, txn[r].day),
         txn' = [txn EXCEPT ![r].pc = "holding",
                            ![r].number = counter[txn[r].kind][txn[r].day] + 1]
  PROVE  CountersInv'
<1> USE DEF CountersInv, CountersTypeOK, RequestState
<1>1. HolderIsNext'
  BY DEF HolderIsNext, OnKey, KeyFree
<1>2. GapFree'
  BY DEF GapFree
<1>3. NoDuplicateNumbers'
  BY DEF NoDuplicateNumbers
<1>4. IssuedByCommitted'
  BY DEF IssuedByCommitted, Document
<1> QED
  BY <1>1, <1>2, <1>3, <1>4

\* Adding a document with the successor of its key's counter keeps every key
\* free of gaps.
LEMMA AppendStep ==
  ASSUME CountersTypeOK, GapFree, NEW doc \in Document,
         doc.number = counter[doc.kind][doc.day] + 1,
         issued' = issued \cup {doc},
         counter' = [counter EXCEPT ![doc.kind][doc.day] = doc.number]
  PROVE  GapFree'
<1> SUFFICES ASSUME NEW k \in Kind, NEW d \in Day
             PROVE  Numbers(issued', k, d) = 1 .. counter'[k][d]
  BY DEF GapFree, Numbers
<1>1. Numbers(issued, k, d) = 1 .. counter[k][d] /\ counter[k][d] \in Nat
  BY DEF GapFree, Numbers, CountersTypeOK
<1>2. CASE doc.kind = k /\ doc.day = d
  <2>1. Numbers(issued \cup {doc}, k, d) = Numbers(issued, k, d) \cup {doc.number}
    BY <1>2, NumbersAdd
  <2>2. counter'[k][d] = counter[k][d] + 1 /\ doc.number = counter[k][d] + 1
    BY <1>2 DEF CountersTypeOK
  <2>3. (1 .. counter[k][d]) \cup {counter[k][d] + 1} = 1 .. counter[k][d] + 1
    BY <1>1
  <2> QED
    BY <1>1, <2>1, <2>2, <2>3
<1>3. CASE ~ (doc.kind = k /\ doc.day = d)
  <2>1. Numbers(issued \cup {doc}, k, d) = Numbers(issued, k, d)
    BY <1>3, NumbersKeep
  <2>2. counter'[k][d] = counter[k][d]
    BY <1>3 DEF CountersTypeOK
  <2> QED
    BY <1>1, <2>1, <2>2
<1> QED
  BY <1>2, <1>3

\* Committing appends the next number of the key.
LEMMA CommitStep ==
  ASSUME CountersInv, CountersTypeOK', NEW r \in Request, CommitNumber(r)
  PROVE  CountersInv'
<1> DEFINE k == txn[r].kind
           d == txn[r].day
           new == [kind |-> k, day |-> d, number |-> txn[r].number, request |-> r]
<1> USE DEF CountersInv, CountersTypeOK, RequestState
<1>1. /\ txn[r].pc = "holding"
      /\ counter' = [counter EXCEPT ![k][d] = counter[k][d] + 1]
      /\ issued' = issued \cup {new}
      /\ txn' = [txn EXCEPT ![r].pc = "committed"]
      /\ new.number = counter[k][d] + 1
  BY DEF CommitNumber, HolderIsNext
<1>2. HolderIsNext'
  BY <1>1 DEF HolderIsNext, OnKey
<1>3. GapFree'
  BY <1>1, AppendStep DEF Document
<1>4. NoDuplicateNumbers'
  <2>1. ASSUME NEW a \in issued, a.kind = k, a.day = d
        PROVE  a.number # new.number
    <3>1. a.number \in Numbers(issued, k, d)
      BY <2>1 DEF Numbers
    <3>2. a.number \in 1 .. counter[k][d]
      BY <3>1 DEF GapFree, Numbers
    <3> QED
      BY <3>2, <1>1
  <2> QED
    BY <1>1, <2>1 DEF NoDuplicateNumbers
<1>5. IssuedByCommitted'
  BY <1>1 DEF IssuedByCommitted, Document
<1> QED
  BY <1>2, <1>3, <1>4, <1>5

-----------------------------------------------------------------------------
LEMMA CountersInductive ==
  /\ CountersInit => CountersInv
  /\ CountersInv /\ CountersTypeOK' /\ [CountersNext]_counterVars => CountersInv'
<1>1. CountersInit => CountersInv
  <2> SUFFICES ASSUME CountersInit
               PROVE  CountersInv
    OBVIOUS
  <2>1. CountersTypeOK
    BY LastDayAssumption DEF CountersInit, CountersTypeOK, RequestState, Phase, Day
  <2>2. HolderIsNext
    BY DEF CountersInit, HolderIsNext
  <2>3. GapFree
    BY DEF CountersInit, GapFree
  <2>4. NoDuplicateNumbers /\ IssuedByCommitted
    BY DEF CountersInit, NoDuplicateNumbers, IssuedByCommitted
  <2> QED
    BY <2>1, <2>2, <2>3, <2>4 DEF CountersInv
<1>2. ASSUME CountersInv, CountersTypeOK', [CountersNext]_counterVars
      PROVE  CountersInv'
  <2> USE <1>2
  <2>1. ASSUME NEW r \in Request, Call(r)
        PROVE  CountersInv'
    BY <2>1, QuietStep DEF Call, CountersInv, CountersTypeOK, RequestState
  <2>2. ASSUME NEW r \in Request, LockRow(r)
        PROVE  CountersInv'
    BY <2>2, DrawStep DEF LockRow
  <2>3. ASSUME NEW r \in Request, FindNoRow(r)
        PROVE  CountersInv'
    BY <2>3, QuietStep DEF FindNoRow, CountersInv, CountersTypeOK, RequestState
  <2>4. ASSUME NEW r \in Request, InsertRow(r)
        PROVE  CountersInv'
    <3>1. counter[txn[r].kind][txn[r].day] + 1 = 1
      BY <2>4 DEF InsertRow
    <3> QED
      BY <2>4, <3>1, DrawStep DEF InsertRow
  <2>5. ASSUME NEW r \in Request, InsertConflict(r)
        PROVE  CountersInv'
    BY <2>5, QuietStep DEF InsertConflict, CountersInv, CountersTypeOK, RequestState
  <2>6. ASSUME NEW r \in Request, CommitNumber(r)
        PROVE  CountersInv'
    BY <2>6, CommitStep
  <2>7. ASSUME NEW r \in Request, Rollback(r)
        PROVE  CountersInv'
    BY <2>7, QuietStep DEF Rollback, CountersInv, CountersTypeOK, RequestState
  <2>8. CASE Midnight
    BY <2>8, QuietStep DEF Midnight, CountersInv, CountersTypeOK, RequestState
  <2>9. CASE UNCHANGED counterVars
    BY <2>9, QuietStep DEF counterVars, CountersInv, CountersTypeOK, RequestState
  <2> QED
    BY <2>1, <2>2, <2>3, <2>4, <2>5, <2>6, <2>7, <2>8, <2>9 DEF CountersNext, Progress
<1> QED
  BY <1>1, <1>2

LEMMA CountersInvariant == CountersSpec => []CountersInv
  BY CountersInductive, CountersTyped, PTL DEF CountersSpec

\* Requests that overlap in any way never commit two documents of one kind and
\* day with the same number.
THEOREM NumbersUnique == CountersSpec => []NoDuplicateNumbers
<1>1. CountersInv => NoDuplicateNumbers
  BY DEF CountersInv
<1> QED
  BY <1>1, CountersInvariant, PTL

\* Failed and crashed requests leave no hole in a day's numbering.
THEOREM NumbersGapFree == CountersSpec => []GapFree
<1>1. CountersInv => GapFree
  BY DEF CountersInv
<1> QED
  BY <1>1, CountersInvariant, PTL

\* The drawn number is always the successor of the committed one, for at most
\* one request of a key at a time.
THEOREM NumbersSerialised == CountersSpec => []HolderIsNext
<1>1. CountersInv => HolderIsNext
  BY DEF CountersInv
<1> QED
  BY <1>1, CountersInvariant, PTL

\* Why a loser is never alone: the counter it found not zero was committed by
\* another request, as document number 1.
LEMMA WinnersInductive ==
  ASSUME CountersInv, ConflictHasWinner, CountersTypeOK', [CountersNext]_counterVars
  PROVE  ConflictHasWinner'
<1>1. issued \subseteq issued'
  BY DEF CountersNext, counterVars, Progress, Call, LockRow, FindNoRow, InsertRow, InsertConflict,
         CommitNumber, Rollback, Midnight
<1>2. \A r \in Request : txn'[r].pc = "conflict" /\ txn[r].pc = "conflict" =>
        txn'[r].kind = txn[r].kind /\ txn'[r].day = txn[r].day
  BY DEF CountersNext, counterVars, Progress, Call, LockRow, FindNoRow, InsertRow, InsertConflict,
         CommitNumber, Rollback, Midnight, CountersInv, CountersTypeOK, RequestState
<1>3. ASSUME NEW r \in Request, txn[r].pc # "conflict", txn'[r].pc = "conflict"
      PROVE  InsertConflict(r)
  <2> USE <1>3 DEF CountersInv, CountersTypeOK
  <2>1. \A s \in Request : ~ Call(s) /\ ~ LockRow(s) /\ ~ FindNoRow(s)
    BY DEF Call, LockRow, FindNoRow, RequestState
  <2>2. \A s \in Request : ~ InsertRow(s) /\ ~ CommitNumber(s) /\ ~ Rollback(s)
    BY DEF InsertRow, CommitNumber, Rollback, RequestState
  <2>3. ~ Midnight /\ ~ UNCHANGED counterVars
    BY DEF Midnight, counterVars
  <2>4. PICK s \in Request : InsertConflict(s)
    BY <2>1, <2>2, <2>3 DEF CountersNext, Progress
  <2>5. s = r
    BY <2>4 DEF InsertConflict, RequestState
  <2> QED
    BY <2>4, <2>5
<1>4. ASSUME NEW r \in Request, InsertConflict(r)
      PROVE  \E doc \in issued' : /\ doc.request # r
                                 /\ doc.kind = txn'[r].kind
                                 /\ doc.day = txn'[r].day
                                 /\ doc.number = 1
  <2> DEFINE k == txn[r].kind
             d == txn[r].day
  <2>1. k \in Kind /\ d \in Day /\ counter[k][d] \in Nat \ {0}
    BY <1>4 DEF InsertConflict, CountersInv, CountersTypeOK, RequestState
  <2>2. {doc.number : doc \in {x \in issued : x.kind = k /\ x.day = d}} = 1 .. counter[k][d]
    BY <2>1 DEF CountersInv, GapFree
  <2>3. 1 \in {doc.number : doc \in {x \in issued : x.kind = k /\ x.day = d}}
    BY <2>1, <2>2
  <2>4. PICK doc \in issued : doc.kind = k /\ doc.day = d /\ doc.number = 1
    BY <2>3
  <2>5. doc.request # r
    BY <1>4 DEF InsertConflict, CountersInv, IssuedByCommitted
  <2>6. txn'[r].kind = k /\ txn'[r].day = d
    BY <1>4 DEF InsertConflict, CountersInv, CountersTypeOK, RequestState
  <2> QED
    BY <1>1, <2>4, <2>5, <2>6
<1> SUFFICES ASSUME NEW r \in Request, txn'[r].pc = "conflict"
             PROVE  \E doc \in issued' : /\ doc.request # r
                                        /\ doc.kind = txn'[r].kind
                                        /\ doc.day = txn'[r].day
                                        /\ doc.number = 1
  BY DEF ConflictHasWinner
<1>5. CASE txn[r].pc = "conflict"
  BY <1>1, <1>2, <1>5 DEF ConflictHasWinner
<1>6. CASE txn[r].pc # "conflict"
  BY <1>3, <1>4, <1>6
<1> QED
  BY <1>5, <1>6

\* A request is rejected by the unique constraint only if another request
\* committed the first number of the day.
THEOREM ConflictsHaveWinners == CountersSpec => []ConflictHasWinner
<1>1. CountersInit => ConflictHasWinner
  BY DEF CountersInit, ConflictHasWinner
<1>2. CountersInv /\ CountersTypeOK' /\ ConflictHasWinner /\ [CountersNext]_counterVars
        => ConflictHasWinner'
  BY WinnersInductive
<1> QED
  BY <1>1, <1>2, CountersInvariant, CountersTyped, PTL DEF CountersSpec

-----------------------------------------------------------------------------
\* A commit is an Issue of the abstract dispenser; every other step leaves the
\* counters and the documents alone.
THEOREM CountersImplementDispenser == CountersSpec => ImplementsDispenser
<1>1. CountersInit => Dispenser!DispenserInit
  BY DEF CountersInit, Dispenser!DispenserInit
<1>2. ASSUME CountersInv, [CountersNext]_counterVars
      PROVE  [Dispenser!DispenserNext]_(Dispenser!dispenserVars)
  <2> USE <1>2
  <2>1. ASSUME NEW r \in Request, CommitNumber(r)
        PROVE  Dispenser!DispenserNext
    <3> DEFINE k == txn[r].kind
               d == txn[r].day
    <3>1. k \in Kind /\ d \in Day
      BY DEF CountersInv, CountersTypeOK, RequestState
    <3>2. txn[r].pc = "holding" /\ txn[r].number = counter[k][d] + 1
      BY <2>1 DEF CommitNumber, CountersInv, HolderIsNext
    <3>3. \A doc \in issued : doc.request # r
      BY <3>2 DEF CountersInv, IssuedByCommitted
    <3>4. Dispenser!Issue(r, k, d)
      BY <2>1, <3>2, <3>3 DEF CommitNumber, Dispenser!Issue
    <3> QED
      BY <3>1, <3>4 DEF Dispenser!DispenserNext
  <2>2. ASSUME NEW r \in Request,
               Call(r) \/ LockRow(r) \/ FindNoRow(r) \/ InsertRow(r)
                 \/ InsertConflict(r) \/ Rollback(r)
        PROVE  UNCHANGED <<counter, issued>>
    BY <2>2 DEF Call, LockRow, FindNoRow, InsertRow, InsertConflict, Rollback
  <2>3. CASE Midnight \/ UNCHANGED counterVars
    BY <2>3 DEF Midnight, counterVars, Dispenser!dispenserVars
  <2> QED
    BY <2>1, <2>2, <2>3 DEF CountersNext, Progress, Dispenser!dispenserVars
<1> QED
  BY <1>1, <1>2, CountersInvariant, PTL
    DEF CountersSpec, ImplementsDispenser, Dispenser!DispenserSpec

=============================================================================
