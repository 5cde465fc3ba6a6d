-------------------------------- MODULE Purchases --------------------------------
(***************************************************************************)
(* Vendor bills of an outlet, their payments and the stock they bring in:  *)
(* app/services/owner/purchase_service.py, with the kitchen's consumption  *)
(* of raw materials as the other writer of the stock (KitchenStock).       *)
(*                                                                         *)
(* A request reads, checks and prepares its changes in one step and        *)
(* commits them in another: it inserts rows (so the ledger and a bill's    *)
(* payment rows add up) and writes the columns it changed over what they   *)
(* hold by then. The lines of a bill are the quantity it has of every      *)
(* material, and lines of no material in its price; the texts of its       *)
(* header, which update_invoice edits, and unit prices are left out.       *)
(***************************************************************************)
EXTENDS Integers, FiniteSets, Functions

CONSTANTS Bill,         \* identities of vendor bills
          Material,     \* raw materials
          Quantity,     \* the quantities a bill may have of a material
          Price,        \* what the lines of a bill may add up to, with taxes
          Discount,     \* the discounts a vendor may grant
          Worker,       \* server tasks; each handles one request at a time
          MaxRequests,  \* bound on the requests of a behaviour, one at a time
          MaxOverlapped \* bound on the requests of a behaviour that overlap

\* A behaviour has room for MaxRequests bills; so few identities do.
ASSUME PurchaseAssumption ==
  /\ IsFiniteSet(Bill)
  /\ Quantity \subseteq Nat /\ Price \subseteq Nat /\ Discount \subseteq Nat
  /\ MaxRequests \in Nat /\ MaxOverlapped \in 0 .. MaxRequests

VARIABLES db,          \* the committed rows
          req,         \* what each worker is about to write
          started,     \* number of requests so far
          overlapped,  \* whether two requests were ever under way at once
          used         \* used[m]: what the kitchen has taken of m (history)

vars == <<db, req, started, overlapped, used>>

BillState == {"unused", "saved", "deleted"}

PaymentStatus == {"unpaid", "partial", "paid"}

\* rows is the sum of a bill's payment rows, ledger that of a material's
\* inventory transactions.
Rows == [bill : [Bill -> BillState], lines : [Bill -> [Material -> Nat]],
         total : [Bill -> Nat], paid : [Bill -> Nat],
         payment : [Bill -> PaymentStatus], applied : [Bill -> BOOLEAN],
         rows : [Bill -> Nat], stock : [Material -> Nat], ledger : [Material -> Int]]

Idle == [busy |-> FALSE]

Busy == [busy : {TRUE}, loaded : Rows, new : Rows]

TypeOK ==
  /\ db \in Rows
  /\ req \in [Worker -> Busy \cup {Idle}]
  /\ started \in 0 .. MaxRequests
  /\ overlapped \in BOOLEAN
  /\ used \in [Material -> Nat]

Init ==
  /\ db = [bill |-> [b \in Bill |-> "unused"],
           lines |-> [b \in Bill |-> [m \in Material |-> 0]],
           total |-> [b \in Bill |-> 0], paid |-> [b \in Bill |-> 0],
           payment |-> [b \in Bill |-> "unpaid"], applied |-> [b \in Bill |-> FALSE],
           rows |-> [b \in Bill |-> 0],
           stock |-> [m \in Material |-> 0], ledger |-> [m \in Material |-> 0]]
  /\ req = [w \in Worker |-> Idle]
  /\ started = 0
  /\ overlapped = FALSE
  /\ used = [m \in Material |-> 0]

-----------------------------------------------------------------------------
(* What the handlers do to the rows they see *)

payment_status(total, paid) ==
  IF paid <= 0 THEN "unpaid" ELSE IF paid >= total THEN "paid" ELSE "partial"

\* _apply_stock: every line of a material raises its stock.
ApplyStock(d, b) ==
  [d EXCEPT !.stock = [m \in Material |-> @[m] + d.lines[b][m]],
            !.ledger = [m \in Material |-> @[m] + d.lines[b][m]],
            !.applied[b] = \E m \in Material : d.lines[b][m] > 0]

\* A bill with its lines, and what was paid with it, in a payment row.
NewBill(d, b, lines, total, paid) ==
  [d EXCEPT !.bill[b] = "saved", !.lines[b] = lines, !.total[b] = total,
            !.paid[b] = paid, !.payment[b] = payment_status(total, paid), !.rows[b] = paid]

\* Mutant of FitsBalance: any payment is accepted while something is due.
FitsWhileDue(d, b, amount) == d.paid[b] < d.total[b]

FitsBalance(d, b, amount) == d.paid[b] + amount <= d.total[b]

AddPayment(d, b, amount) ==
  [d EXCEPT !.rows[b] = @ + amount, !.paid[b] = @ + amount,
            !.payment[b] = payment_status(d.total[b], d.paid[b] + amount)]

\* Mutant of NotBelowZero: the stock is not clamped.
MayGoBelow(n) == n

NotBelowZero(n) == IF n < 0 THEN 0 ELSE n

\* Mutant of TakeBack: what was never stocked in is taken back, too.
TakeBackAlways(d, b) ==
  [d EXCEPT !.stock = [m \in Material |-> NotBelowZero(@[m] - d.lines[b][m])],
            !.ledger = [m \in Material |-> @[m] - d.lines[b][m]]]

\* delete_invoice reverses the stock-in; the stock stops at zero.
TakeBack(d, b) ==
  IF ~ d.applied[b] THEN d
  ELSE [d EXCEPT !.stock = [m \in Material |-> NotBelowZero(@[m] - d.lines[b][m])],
                 !.ledger = [m \in Material |-> @[m] - d.lines[b][m]]]

-----------------------------------------------------------------------------
(* Requests *)

\* Worker w is about to write new, from the rows it sees now.
Prepare(w, new) ==
  /\ ~ req[w].busy
  /\ overlapped' = (overlapped \/ \E v \in Worker : req[v].busy)
  /\ started < IF overlapped' THEN MaxOverlapped ELSE MaxRequests
  /\ req' = [req EXCEPT ![w] = [busy |-> TRUE, loaded |-> db, new |-> new]]
  /\ started' = started + 1
  /\ UNCHANGED <<db, used>>

\* Identities no request under way has given to a bill.
Free == {b \in Bill : /\ db.bill[b] = "unused"
                      /\ \A w \in Worker : req[w].busy => req[w].new.bill[b] = "unused"}

create_invoice(w, b, lines, price, discount, paid, stockIn) ==
  LET total == price - discount
      new == NewBill(db, b, lines, total, paid)
  IN /\ b \in Free
     /\ total >= 0 /\ paid <= total
     /\ Prepare(w, IF stockIn THEN ApplyStock(new, b) ELSE new)

apply_stock(w, b) ==
  /\ db.bill[b] = "saved"
  /\ ~ db.applied[b]
  /\ \E m \in Material : db.lines[b][m] > 0
  /\ Prepare(w, ApplyStock(db, b))

add_payment(w, b, amount) ==
  /\ db.bill[b] = "saved"
  /\ FitsBalance(db, b, amount)
  /\ Prepare(w, AddPayment(db, b, amount))

\* The payment rows go with the bill.
delete_invoice(w, b) ==
  /\ db.bill[b] = "saved"
  /\ Prepare(w, [TakeBack(db, b) EXCEPT !.bill[b] = "deleted"])

-----------------------------------------------------------------------------
(* Commits *)

Written(cur, old, new) ==
  [k \in DOMAIN cur |-> IF new[k] # old[k] THEN new[k] ELSE cur[k]]

\* Inserted rows add to the rows there are.
Added(cur, old, new) == [k \in DOMAIN cur |-> cur[k] + (new[k] - old[k])]

Merged(cur, old, new) ==
  [bill |-> Written(cur.bill, old.bill, new.bill),
   lines |-> Written(cur.lines, old.lines, new.lines),
   total |-> Written(cur.total, old.total, new.total),
   paid |-> Written(cur.paid, old.paid, new.paid),
   payment |-> Written(cur.payment, old.payment, new.payment),
   applied |-> Written(cur.applied, old.applied, new.applied),
   rows |-> Added(cur.rows, old.rows, new.rows),
   stock |-> Written(cur.stock, old.stock, new.stock),
   ledger |-> Added(cur.ledger, old.ledger, new.ledger)]

\* An update of a bill, or a payment row for one, that was deleted meanwhile;
\* deleting it again goes unnoticed.
MissesRow(cur, old, new) ==
  \E b \in Bill :
    /\ cur.bill[b] = "deleted" /\ old.bill[b] = "saved"
    /\ <<new.paid[b], new.payment[b], new.applied[b], new.rows[b]>>
         # <<old.paid[b], old.payment[b], old.applied[b], old.rows[b]>>

Commit(w) ==
  LET old == req[w].loaded
      new == req[w].new
  IN /\ req[w].busy
     /\ db' = IF MissesRow(db, old, new) THEN db ELSE Merged(db, old, new)
     /\ req' = [req EXCEPT ![w] = Idle]
     /\ UNCHANGED <<started, overlapped, used>>

\* A ticket of the kitchen takes one unit of m from the stock; how tickets
\* race with each other is the subject of KitchenStock.
Consume(m) ==
  /\ db.stock[m] > 0
  /\ overlapped' = (overlapped \/ \E v \in Worker : req[v].busy)
  /\ db' = [db EXCEPT !.stock[m] = @ - 1, !.ledger[m] = @ - 1]
  /\ used' = [used EXCEPT ![m] = @ + 1]
  /\ UNCHANGED <<req, started>>

Next ==
  \/ \E w \in Worker :
       \/ \E b \in Bill, lines \in [Material -> Quantity], price \in Price,
             discount \in Discount, paid \in Price, stockIn \in BOOLEAN :
            create_invoice(w, b, lines, price, discount, paid, stockIn)
       \/ \E b \in Bill : apply_stock(w, b) \/ delete_invoice(w, b)
       \/ \E b \in Bill, amount \in Price \ {0} : add_payment(w, b, amount)
       \/ Commit(w)
  \/ \E m \in Material : Consume(m)

Spec == Init /\ [][Next]_vars

-----------------------------------------------------------------------------
(* Properties *)

SavedBills == {b \in Bill : db.bill[b] = "saved"}

\* However requests overlap, a bill never counts more as paid than it costs;
\* one at a time, what counts as paid is the sum of its payment rows, and its
\* status says how it compares with the total.
PaidWithinTotal ==
  \A b \in SavedBills :
    /\ db.paid[b] <= db.total[b]
    /\ ~ overlapped =>
         /\ db.paid[b] = db.rows[b]
         /\ db.payment[b] = "paid" <=> db.paid[b] = db.total[b] /\ db.paid[b] > 0
         /\ db.payment[b] = "unpaid" <=> db.paid[b] = 0

\* One at a time, the ledger of a material holds every bill that was stocked
\* in and still exists exactly once, and what the kitchen took; and there is
\* never less in stock than the ledger says.
LedgerCountsBillsOnce ==
  ~ overlapped =>
    \A m \in Material :
      /\ db.ledger[m] + used[m]
           = SumFunctionOnSet([b \in Bill |-> db.lines[b][m]], {b \in SavedBills : db.applied[b]})
      /\ db.ledger[m] <= db.stock[m]

=============================================================================
