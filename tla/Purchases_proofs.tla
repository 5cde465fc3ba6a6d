---------------------------- MODULE Purchases_proofs ----------------------------
(***************************************************************************)
(* For any bills, materials, prices and workers, however requests overlap: *)
(* the rows keep their types and no bill counts more as paid than it       *)
(* costs; one request at a time, what counts as paid is what the payment   *)
(* rows add up to, and the ledger of a material what the bills stocked in. *)
(***************************************************************************)
EXTENDS Purchases, Sums, TLAPS

\* What any request may do to the rows it sees: a bill that exists keeps its
\* total and stays, none is paid beyond its total, payment rows are only added.
Legal(old, new) ==
  /\ new \in Rows
  /\ \A b \in Bill :
       /\ new.paid[b] <= new.total[b]
       /\ old.rows[b] <= new.rows[b]
       /\ old.bill[b] # "unused" => new.bill[b] # "unused" /\ new.total[b] = old.total[b]
       /\ old.bill[b] = "unused" /\ new.bill[b] = "unused" =>
            /\ new.total[b] = old.total[b] /\ new.paid[b] = old.paid[b]
            /\ new.rows[b] = old.rows[b]

\* The bills a request inserts.
Inserted(old, new) == {b \in Bill : old.bill[b] = "unused" /\ new.bill[b] # "unused"}

\* What counts as paid is what the payment rows say, and so is the status.
Exact(d) ==
  \A b \in Bill : /\ d.paid[b] = d.rows[b]
                  /\ d.payment[b] = payment_status(d.total[b], d.paid[b])

\* The rows w read were those of the database once: bills that were there are
\* there still, with the total they had.
Outdated(old) ==
  \A b \in Bill : old.bill[b] # "unused" =>
                    db.bill[b] # "unused" /\ db.total[b] = old.total[b]

Sound(d) ==
  \A b \in Bill : /\ d.paid[b] <= d.total[b]
                  /\ d.bill[b] = "unused" => d.total[b] = 0 /\ d.paid[b] = 0 /\ d.rows[b] = 0

RequestOK(w) ==
  /\ Legal(req[w].loaded, req[w].new)
  /\ Sound(req[w].loaded)
  /\ Outdated(req[w].loaded)
  /\ \A b \in Inserted(req[w].loaded, req[w].new) :
       /\ db.bill[b] = "unused"
       /\ \A v \in Worker \ {w} : req[v].busy => req[v].new.bill[b] = "unused"

\* Alone, a request has read the present rows, and they are exact.
Alone ==
  ~ overlapped =>
    /\ Exact(db)
    /\ \A w \in Worker : req[w].busy =>
         /\ req[w].loaded = db
         /\ Exact(req[w].new)
         /\ \A v \in Worker \ {w} : ~ req[v].busy

\* The inductive invariant. Overlapping requests write over each other's
\* columns; what saves the totals is that only the request that inserts a bill
\* ever writes its total, and that nobody else can insert the same bill.
PurchaseInv ==
  /\ TypeOK
  /\ Sound(db)
  /\ \A w \in Worker : req[w].busy => RequestOK(w)
  /\ Alone

-----------------------------------------------------------------------------
(* The columns a handler leaves *)

LEMMA StockApplied ==
  ASSUME NEW d \in Rows, NEW b \in Bill
  PROVE  LET new == ApplyStock(d, b)
         IN /\ new \in Rows
            /\ new.bill = d.bill /\ new.total = d.total /\ new.paid = d.paid
            /\ new.payment = d.payment /\ new.rows = d.rows
<1> DEFINE stocked == \E m \in Material : d.lines[b][m] > 0
           stock == [m \in Material |-> d.stock[m] + d.lines[b][m]]
           ledger == [m \in Material |-> d.ledger[m] + d.lines[b][m]]
           applied == [d.applied EXCEPT ![b] = stocked]
<1>1. stocked \in BOOLEAN
  OBVIOUS
<1>2. applied \in [Bill -> BOOLEAN]
  <2> HIDE DEF stocked
  <2> QED
    BY <1>1 DEF Rows
<1>3. stock \in [Material -> Nat] /\ ledger \in [Material -> Int]
  BY DEF Rows
<1>4. ApplyStock(d, b) = [d EXCEPT !.stock = stock, !.ledger = ledger, !.applied = applied]
  BY Zenon DEF ApplyStock, Rows
<1> HIDE DEF stock, ledger, applied
<1> QED
  BY <1>2, <1>3, <1>4 DEF Rows

LEMMA PaymentAdded ==
  ASSUME NEW d \in Rows, NEW b \in Bill, NEW amount \in Nat
  PROVE  LET new == AddPayment(d, b, amount)
         IN /\ new \in Rows
            /\ new.bill = d.bill /\ new.total = d.total
            /\ new.paid = [d.paid EXCEPT ![b] = d.paid[b] + amount]
            /\ new.payment = [d.payment EXCEPT
                                ![b] = payment_status(d.total[b], d.paid[b] + amount)]
            /\ new.rows = [d.rows EXCEPT ![b] = d.rows[b] + amount]
<1>1. payment_status(d.total[b], d.paid[b] + amount) \in PaymentStatus
  BY DEF payment_status, PaymentStatus
<1> DEFINE paid == [d.paid EXCEPT ![b] = d.paid[b] + amount]
           payment == [d.payment EXCEPT ![b] = payment_status(d.total[b], d.paid[b] + amount)]
           rows == [d.rows EXCEPT ![b] = d.rows[b] + amount]
<1>2. paid \in [Bill -> Nat] /\ rows \in [Bill -> Nat]
  BY DEF Rows
<1>3. payment \in [Bill -> PaymentStatus]
  BY <1>1 DEF Rows
<1>4. AddPayment(d, b, amount) = [d EXCEPT !.rows = rows, !.paid = paid, !.payment = payment]
  BY DEF AddPayment, Rows
<1> HIDE DEF paid, payment, rows
<1>5. LET new == [d EXCEPT !.rows = rows, !.paid = paid, !.payment = payment]
      IN /\ new \in Rows
         /\ new.bill = d.bill /\ new.total = d.total
         /\ new.paid = paid /\ new.payment = payment /\ new.rows = rows
  BY <1>2, <1>3 DEF Rows
<1> QED
  BY <1>4, <1>5 DEF paid, payment, rows

LEMMA BillDeleted ==
  ASSUME NEW d \in Rows, NEW b \in Bill
  PROVE  LET new == [TakeBack(d, b) EXCEPT !.bill[b] = "deleted"]
         IN /\ new \in Rows
            /\ new.bill = [d.bill EXCEPT ![b] = "deleted"]
            /\ new.total = d.total /\ new.paid = d.paid
            /\ new.payment = d.payment /\ new.rows = d.rows
<1>1. \A n \in Int : NotBelowZero(n) \in Nat
  BY DEF NotBelowZero
<1>2. /\ TakeBack(d, b) \in Rows
      /\ TakeBack(d, b).bill = d.bill /\ TakeBack(d, b).total = d.total
      /\ TakeBack(d, b).paid = d.paid /\ TakeBack(d, b).payment = d.payment
      /\ TakeBack(d, b).rows = d.rows
  <2> DEFINE stock == [m \in Material |-> NotBelowZero(d.stock[m] - d.lines[b][m])]
             ledger == [m \in Material |-> d.ledger[m] - d.lines[b][m]]
  <2>1. stock \in [Material -> Nat] /\ ledger \in [Material -> Int]
    BY <1>1 DEF Rows
  <2>2. TakeBack(d, b) = IF ~ d.applied[b] THEN d
                         ELSE [d EXCEPT !.stock = stock, !.ledger = ledger]
    BY DEF TakeBack, Rows
  <2> HIDE DEF stock, ledger
  <2> QED
    BY <2>1, <2>2 DEF Rows
<1> QED
  BY <1>2 DEF Rows, BillState

-----------------------------------------------------------------------------
(* What a handler prepares is legal *)

Prepared(w, new) ==
  /\ Prepare(w, new)
  /\ Legal(db, new)
  /\ Inserted(db, new) \subseteq Free
  /\ Exact(db) => Exact(new)

LEMMA InvoiceCreated ==
  ASSUME PurchaseInv, NEW w \in Worker, NEW b \in Bill, NEW lines \in [Material -> Quantity],
         NEW price \in Price, NEW discount \in Discount, NEW paid \in Price,
         NEW stockIn \in BOOLEAN, create_invoice(w, b, lines, price, discount, paid, stockIn)
  PROVE  \E new : Prepared(w, new)
<1> DEFINE total == price - discount
           bill == NewBill(db, b, lines, total, paid)
           new == IF stockIn THEN ApplyStock(bill, b) ELSE bill
<1>1. b \in Free /\ total >= 0 /\ paid <= total /\ Prepare(w, new)
  BY Zenon DEF create_invoice
<1>2. db \in Rows /\ Sound(db)
  BY DEF PurchaseInv, TypeOK
<1>3. lines \in [Material -> Nat] /\ paid \in Nat /\ price \in Nat /\ discount \in Nat
  BY PurchaseAssumption
<1>4. total \in Nat /\ paid <= total
  BY <1>1, <1>3
<1> HIDE DEF total
<1>5. /\ bill \in Rows
      /\ bill.bill = [db.bill EXCEPT ![b] = "saved"]
      /\ bill.total = [db.total EXCEPT ![b] = total]
      /\ bill.paid = [db.paid EXCEPT ![b] = paid]
      /\ bill.payment = [db.payment EXCEPT ![b] = payment_status(total, paid)]
      /\ bill.rows = [db.rows EXCEPT ![b] = paid]
  <2> HIDE DEF new
  <2>1. payment_status(total, paid) \in PaymentStatus
    BY DEF payment_status, PaymentStatus
  <2> QED
    BY <1>2, <1>3, <1>4, <2>1 DEF NewBill, Rows, BillState
<1> HIDE DEF bill
<1>6. /\ new \in Rows
      /\ new.bill = bill.bill /\ new.total = bill.total /\ new.paid = bill.paid
      /\ new.payment = bill.payment /\ new.rows = bill.rows
  BY <1>5, StockApplied
<1> HIDE DEF new
<1>7. db.bill[b] = "unused"
  BY <1>1 DEF Free
<1>8. Legal(db, new)
  BY <1>2, <1>3, <1>4, <1>5, <1>6, <1>7 DEF Legal, Sound, Rows
<1>9. Inserted(db, new) \subseteq Free
  BY <1>1, <1>2, <1>5, <1>6 DEF Inserted, Rows
<1>10. Exact(db) => Exact(new)
  BY <1>2, <1>3, <1>4, <1>5, <1>6 DEF Exact, Rows
<1> QED
  BY <1>1, <1>8, <1>9, <1>10 DEF Prepared

LEMMA StockedIn ==
  ASSUME PurchaseInv, NEW w \in Worker, NEW b \in Bill, apply_stock(w, b)
  PROVE  \E new : Prepared(w, new)
<1> DEFINE new == ApplyStock(db, b)
<1>1. Prepare(w, new)
  BY DEF apply_stock
<1>2. db \in Rows /\ Sound(db)
  BY DEF PurchaseInv, TypeOK
<1>3. /\ new \in Rows
      /\ new.bill = db.bill /\ new.total = db.total /\ new.paid = db.paid
      /\ new.payment = db.payment /\ new.rows = db.rows
  BY <1>2, StockApplied
<1> HIDE DEF new
<1>4. Legal(db, new) /\ Inserted(db, new) = {} /\ (Exact(db) => Exact(new))
  BY <1>2, <1>3 DEF Legal, Sound, Inserted, Exact, Rows
<1> QED
  BY <1>1, <1>4 DEF Prepared

LEMMA BillPaid ==
  ASSUME PurchaseInv, NEW w \in Worker, NEW b \in Bill, NEW amount \in Price,
         add_payment(w, b, amount)
  PROVE  \E new : Prepared(w, new)
<1> DEFINE new == AddPayment(db, b, amount)
<1>1. db.bill[b] = "saved" /\ db.paid[b] + amount <= db.total[b] /\ Prepare(w, new)
  BY DEF add_payment, FitsBalance
<1>2. db \in Rows /\ Sound(db) /\ amount \in Nat
  BY PurchaseAssumption DEF PurchaseInv, TypeOK
<1>3. /\ new \in Rows
      /\ new.bill = db.bill /\ new.total = db.total
      /\ new.paid = [db.paid EXCEPT ![b] = db.paid[b] + amount]
      /\ new.payment = [db.payment EXCEPT
                          ![b] = payment_status(db.total[b], db.paid[b] + amount)]
      /\ new.rows = [db.rows EXCEPT ![b] = db.rows[b] + amount]
  BY <1>2, PaymentAdded
<1> HIDE DEF new
<1>4. Legal(db, new)
  BY <1>1, <1>2, <1>3 DEF Legal, Sound, Rows
<1>5. Inserted(db, new) = {}
  BY <1>3 DEF Inserted
<1>6. Exact(db) => Exact(new)
  BY <1>2, <1>3 DEF Exact, Rows
<1> QED
  BY <1>1, <1>4, <1>5, <1>6 DEF Prepared

LEMMA BillRemoved ==
  ASSUME PurchaseInv, NEW w \in Worker, NEW b \in Bill, delete_invoice(w, b)
  PROVE  \E new : Prepared(w, new)
<1> DEFINE new == [TakeBack(db, b) EXCEPT !.bill[b] = "deleted"]
<1>1. db.bill[b] = "saved" /\ Prepare(w, new)
  BY DEF delete_invoice
<1>2. db \in Rows /\ Sound(db)
  BY DEF PurchaseInv, TypeOK
<1>3. /\ new \in Rows
      /\ new.bill = [db.bill EXCEPT ![b] = "deleted"]
      /\ new.total = db.total /\ new.paid = db.paid
      /\ new.payment = db.payment /\ new.rows = db.rows
  BY <1>2, BillDeleted
<1> HIDE DEF new
<1>4. Legal(db, new)
  BY <1>1, <1>2, <1>3 DEF Legal, Sound, Rows
<1>5. Inserted(db, new) = {}
  BY <1>1, <1>2, <1>3 DEF Inserted, Rows
<1>6. Exact(db) => Exact(new)
  BY <1>2, <1>3 DEF Exact, Rows
<1> QED
  BY <1>1, <1>4, <1>5, <1>6 DEF Prepared

-----------------------------------------------------------------------------
(* The steps *)

LEMMA PrepareStep ==
  ASSUME PurchaseInv, NEW w \in Worker, NEW new, Prepared(w, new)
  PROVE  PurchaseInv'
<1>1. /\ ~ req[w].busy
      /\ req' = [req EXCEPT ![w] = [busy |-> TRUE, loaded |-> db, new |-> new]]
      /\ overlapped' = (overlapped \/ \E v \in Worker : req[v].busy)
      /\ started' = started + 1 /\ db' = db /\ used' = used
      /\ started < (IF overlapped' THEN MaxOverlapped ELSE MaxRequests)
      /\ Legal(db, new) /\ Inserted(db, new) \subseteq Free /\ (Exact(db) => Exact(new))
  BY DEF Prepared, Prepare
<1>2. req \in [Worker -> Busy \cup {Idle}] /\ db \in Rows /\ new \in Rows
  BY <1>1 DEF PurchaseInv, TypeOK, Legal
<1>3. /\ req'[w] = [busy |-> TRUE, loaded |-> db, new |-> new]
      /\ \A v \in Worker \ {w} : req'[v] = req[v]
  BY <1>1, <1>2
<1>4. TypeOK'
  <2>1. started' \in 0 .. MaxRequests
    BY <1>1, PurchaseAssumption DEF PurchaseInv, TypeOK
  <2>2. overlapped' \in BOOLEAN
    <3> DEFINE busy == \E v \in Worker : req[v].busy
    <3>1. busy \in BOOLEAN
      OBVIOUS
    <3> HIDE DEF busy
    <3> QED
      BY <1>1, <3>1 DEF PurchaseInv, TypeOK
  <2>3. req' \in [Worker -> Busy \cup {Idle}]
    BY <1>1, <1>2 DEF Busy
  <2> QED
    BY <1>1, <1>2, <2>1, <2>2, <2>3 DEF PurchaseInv, TypeOK
<1>5. Sound(db)'
  BY <1>1 DEF PurchaseInv, Sound
<1>6. ASSUME NEW v \in Worker, req'[v].busy
      PROVE  RequestOK(v)'
  <2>1. CASE v = w
    <3>1. Outdated(db)'
      BY <1>1 DEF Outdated
    <3>2. ASSUME NEW b \in Inserted(db, new)
          PROVE  /\ db.bill[b] = "unused"
                 /\ \A u \in Worker \ {w} : req'[u].busy => req'[u].new.bill[b] = "unused"
      BY <1>1, <1>3, <3>2 DEF Free
    <3> QED
      BY <1>1, <1>3, <2>1, <3>1, <3>2 DEF RequestOK, PurchaseInv
  <2>2. CASE v # w
    <3>1. req'[v] = req[v] /\ RequestOK(v)
      BY <1>3, <1>6, <2>2 DEF PurchaseInv
    <3>2. ASSUME NEW b \in Inserted(req[v].loaded, req[v].new)
          PROVE  new.bill[b] = "unused"
      <4>1. db.bill[b] = "unused"
        BY <3>1, <3>2 DEF RequestOK
      <4>2. b \notin Free
        BY <1>6, <3>1, <3>2 DEF Free, Inserted
      <4> QED
        BY <1>1, <3>2, <4>1, <4>2 DEF Inserted
    <3>3. Outdated(req[v].loaded)'
      BY <1>1, <3>1 DEF RequestOK, Outdated
    <3> QED
      BY <1>1, <1>3, <3>1, <3>2, <3>3 DEF RequestOK
  <2> QED
    BY <2>1, <2>2
<1>7. Alone'
  <2> SUFFICES ASSUME ~ overlapped'
               PROVE  /\ Exact(db)
                      /\ \A v \in Worker : req'[v].busy =>
                           /\ req'[v].loaded = db
                           /\ Exact(req'[v].new)
                           /\ \A u \in Worker \ {v} : ~ req'[u].busy
    BY <1>1 DEF Alone, Exact
  <2>1. ~ overlapped /\ \A v \in Worker : ~ req[v].busy
    BY <1>1
  <2>2. Exact(db) /\ Exact(new)
    BY <1>1, <2>1 DEF PurchaseInv, Alone
  <2> QED
    BY <1>3, <2>1, <2>2
<1> QED
  BY <1>4, <1>5, <1>6, <1>7 DEF PurchaseInv

\* What a commit writes of the columns of one bill.
LEMMA MergedColumns ==
  ASSUME NEW cur \in Rows, NEW old \in Rows, NEW new \in Rows,
         \A b \in Bill : old.rows[b] <= new.rows[b]
  PROVE  LET m == Merged(cur, old, new)
         IN /\ m \in Rows
            /\ \A b \in Bill :
                 /\ m.bill[b] = IF new.bill[b] # old.bill[b] THEN new.bill[b] ELSE cur.bill[b]
                 /\ m.total[b] = IF new.total[b] # old.total[b] THEN new.total[b]
                                 ELSE cur.total[b]
                 /\ m.paid[b] = IF new.paid[b] # old.paid[b] THEN new.paid[b] ELSE cur.paid[b]
                 /\ m.payment[b] = IF new.payment[b] # old.payment[b] THEN new.payment[b]
                                   ELSE cur.payment[b]
                 /\ m.rows[b] = cur.rows[b] + (new.rows[b] - old.rows[b])
<1>1. \A S, T : \A c, o, n \in [S -> T] : Written(c, o, n) \in [S -> T]
  BY DEF Written
<1>2. Added(cur.rows, old.rows, new.rows) \in [Bill -> Nat]
  BY DEF Added, Rows
<1>3. Added(cur.ledger, old.ledger, new.ledger) \in [Material -> Int]
  BY DEF Added, Rows
<1>4. Merged(cur, old, new) \in Rows
  BY <1>1, <1>2, <1>3 DEF Merged, Rows
<1> QED
  BY <1>4 DEF Merged, Written, Added, Rows

LEMMA CommitStep ==
  ASSUME PurchaseInv, NEW w \in Worker, Commit(w)
  PROVE  PurchaseInv'
<1> DEFINE old == req[w].loaded
           new == req[w].new
           merged == Merged(db, old, new)
<1>1. /\ req[w].busy /\ req' = [req EXCEPT ![w] = Idle]
      /\ db' = IF MissesRow(db, old, new) THEN db ELSE merged
      /\ started' = started /\ overlapped' = overlapped /\ used' = used
  BY DEF Commit
<1>2. /\ req \in [Worker -> Busy \cup {Idle}] /\ db \in Rows /\ Sound(db)
      /\ old \in Rows /\ new \in Rows /\ RequestOK(w)
  <2>1. req \in [Worker -> Busy \cup {Idle}] /\ db \in Rows /\ Sound(db) /\ RequestOK(w)
    BY <1>1 DEF PurchaseInv, TypeOK
  <2>2. req[w] \in Busy
    BY <1>1, <2>1 DEF Idle
  <2> QED
    BY <2>1, <2>2 DEF Busy
<1>3. /\ ~ req'[w].busy
      /\ \A v \in Worker \ {w} : req'[v] = req[v]
  BY <1>1, <1>2 DEF Idle
<1>4. /\ Legal(old, new) /\ Sound(old) /\ Outdated(old)
      /\ \A b \in Inserted(old, new) :
           /\ db.bill[b] = "unused"
           /\ \A v \in Worker \ {w} : req[v].busy => req[v].new.bill[b] = "unused"
  BY <1>2 DEF RequestOK
<1>5. merged \in Rows /\ \A b \in Bill :
        /\ merged.bill[b] = IF new.bill[b] # old.bill[b] THEN new.bill[b] ELSE db.bill[b]
        /\ merged.total[b] = IF new.total[b] # old.total[b] THEN new.total[b] ELSE db.total[b]
        /\ merged.paid[b] = IF new.paid[b] # old.paid[b] THEN new.paid[b] ELSE db.paid[b]
        /\ merged.payment[b] = IF new.payment[b] # old.payment[b] THEN new.payment[b]
                               ELSE db.payment[b]
        /\ merged.rows[b] = db.rows[b] + (new.rows[b] - old.rows[b])
  BY <1>2, <1>4, MergedColumns DEF Legal
<1> HIDE DEF old, new, merged
<1>6. Sound(merged)
  <2> SUFFICES ASSUME NEW b \in Bill
               PROVE  /\ merged.paid[b] <= merged.total[b]
                      /\ merged.bill[b] = "unused" =>
                           merged.total[b] = 0 /\ merged.paid[b] = 0 /\ merged.rows[b] = 0
    BY DEF Sound
  <2>1. CASE old.bill[b] # "unused"
    BY <1>2, <1>4, <1>5, <2>1 DEF Legal, Sound, Outdated, Rows
  <2>2. CASE b \in Inserted(old, new)
    <3>1. /\ db.total[b] = 0 /\ db.paid[b] = 0
          /\ old.total[b] = 0 /\ old.paid[b] = 0
      BY <1>2, <1>4, <2>2 DEF Sound, Inserted
    <3>2. merged.total[b] = new.total[b] /\ merged.paid[b] = new.paid[b]
      BY <1>5, <3>1
    <3>3. merged.bill[b] # "unused"
      BY <1>5, <2>2 DEF Inserted
    <3> QED
      BY <1>4, <3>2, <3>3 DEF Legal
  <2>3. CASE old.bill[b] = "unused" /\ new.bill[b] = "unused"
    BY <1>2, <1>4, <1>5, <2>3 DEF Legal, Sound, Rows
  <2> QED
    BY <2>1, <2>2, <2>3 DEF Inserted
\* What others still mean to write stays possible.
<1>7. \A b \in Bill : db.bill[b] # "unused" =>
        merged.bill[b] # "unused" /\ merged.total[b] = db.total[b]
  <2> TAKE b \in Bill
  <2> HAVE db.bill[b] # "unused"
  <2>1. CASE old.bill[b] # "unused"
    BY <1>2, <1>4, <1>5, <2>1 DEF Legal, Rows
  <2>2. CASE old.bill[b] = "unused"
    <3>1. new.bill[b] = "unused"
      BY <1>4, <2>2 DEF Inserted
    <3> QED
      BY <1>2, <1>4, <1>5, <2>2, <3>1 DEF Legal, Rows
  <2> QED
    BY <2>1, <2>2
<1>8. \A b \in Bill : db.bill[b] = "unused" /\ new.bill[b] = "unused" =>
        merged.bill[b] = "unused"
  BY <1>4, <1>5 DEF Legal
<1>9. TypeOK'
  BY <1>1, <1>2, <1>5 DEF PurchaseInv, TypeOK
<1>10. Sound(db)'
  BY <1>1, <1>2, <1>6 DEF Sound
<1>11. ASSUME NEW v \in Worker, req'[v].busy
       PROVE  RequestOK(v)'
  <2>1. v # w /\ req'[v] = req[v] /\ RequestOK(v)
    BY <1>3, <1>11 DEF PurchaseInv
  <2>2. Outdated(req[v].loaded)'
    BY <1>1, <1>7, <2>1 DEF RequestOK, Outdated
  <2>3. ASSUME NEW b \in Inserted(req[v].loaded, req[v].new)
        PROVE  /\ db'.bill[b] = "unused"
               /\ \A u \in Worker \ {v} : req'[u].busy => req'[u].new.bill[b] = "unused"
    <3>1. db.bill[b] = "unused"
          /\ \A u \in Worker \ {v} : req[u].busy => req[u].new.bill[b] = "unused"
      BY <2>1, <2>3 DEF RequestOK
    <3>2. new.bill[b] = "unused"
      BY <1>1, <2>1, <3>1 DEF new
    <3> QED
      BY <1>1, <1>3, <1>8, <2>3, <3>1, <3>2 DEF Inserted
  <2> QED
    BY <2>1, <2>2, <2>3 DEF RequestOK
<1>12. Alone'
  <2> SUFFICES ASSUME ~ overlapped
               PROVE  /\ Exact(db')
                      /\ \A v \in Worker : ~ req'[v].busy
    BY <1>1 DEF Alone, Exact
  <2>1. old = db /\ Exact(db) /\ Exact(new) /\ \A v \in Worker \ {w} : ~ req[v].busy
    BY <1>1 DEF PurchaseInv, Alone, old, new
  <2>2. \A b \in Bill : /\ merged.total[b] = new.total[b] /\ merged.paid[b] = new.paid[b]
                       /\ merged.payment[b] = new.payment[b] /\ merged.rows[b] = new.rows[b]
    BY <1>2, <1>5, <2>1 DEF Rows
  <2>3. Exact(merged)
    BY <2>1, <2>2 DEF Exact
  <2> QED
    BY <1>1, <1>3, <2>1, <2>3
<1> QED
  BY <1>9, <1>10, <1>11, <1>12 DEF PurchaseInv

LEMMA ConsumeStep ==
  ASSUME PurchaseInv, NEW m \in Material, Consume(m)
  PROVE  PurchaseInv'
<1>1. /\ db.stock[m] > 0 /\ db' = [db EXCEPT !.stock[m] = @ - 1, !.ledger[m] = @ - 1]
      /\ overlapped' = (overlapped \/ \E v \in Worker : req[v].busy)
      /\ used' = [used EXCEPT ![m] = @ + 1] /\ req' = req /\ started' = started
  BY DEF Consume
<1>2. db' \in Rows /\ db'.bill = db.bill /\ db'.total = db.total /\ db'.paid = db.paid
      /\ db'.payment = db.payment /\ db'.rows = db.rows
  <2> DEFINE stock == [db.stock EXCEPT ![m] = db.stock[m] - 1]
             ledger == [db.ledger EXCEPT ![m] = db.ledger[m] - 1]
  <2>1. db \in Rows
    BY DEF PurchaseInv, TypeOK
  <2>2. stock \in [Material -> Nat] /\ ledger \in [Material -> Int]
    BY <1>1, <2>1 DEF Rows
  <2>3. db' = [db EXCEPT !.stock = stock, !.ledger = ledger]
    BY <1>1, <2>1 DEF Rows
  <2> HIDE DEF stock, ledger
  <2> QED
    BY <2>1, <2>2, <2>3 DEF Rows
<1>3. TypeOK'
  <2>1. overlapped' \in BOOLEAN
    <3> DEFINE busy == \E v \in Worker : req[v].busy
    <3>1. busy \in BOOLEAN
      OBVIOUS
    <3> HIDE DEF busy
    <3> QED
      BY <1>1, <3>1 DEF PurchaseInv, TypeOK
  <2>2. used' \in [Material -> Nat]
    BY <1>1 DEF PurchaseInv, TypeOK
  <2> QED
    BY <1>1, <1>2, <2>1, <2>2 DEF PurchaseInv, TypeOK
<1>4. Sound(db)'
  BY <1>2 DEF PurchaseInv, Sound
<1>5. \A w \in Worker : req'[w].busy => RequestOK(w)'
  BY <1>1, <1>2 DEF PurchaseInv, RequestOK, Outdated
<1>6. Alone'
  BY <1>1, <1>2 DEF PurchaseInv, Alone, Exact
<1> QED
  BY <1>3, <1>4, <1>5, <1>6 DEF PurchaseInv

LEMMA PurchasesInductive ==
  /\ Init => PurchaseInv
  /\ PurchaseInv /\ [Next]_vars => PurchaseInv'
<1>1. Init => PurchaseInv
  <2> SUFFICES ASSUME Init
               PROVE  PurchaseInv
    OBVIOUS
  <2>1. db \in Rows
    BY DEF Init, Rows, BillState, PaymentStatus
  <2>2. TypeOK
    <3>1. started \in 0 .. MaxRequests
      BY PurchaseAssumption DEF Init
    <3>2. req \in [Worker -> Busy \cup {Idle}] /\ used \in [Material -> Nat]
      BY DEF Init
    <3>3. overlapped \in BOOLEAN
      BY DEF Init
    <3> QED
      BY <2>1, <3>1, <3>2, <3>3 DEF TypeOK
  <2>3. Sound(db) /\ Exact(db)
    BY DEF Init, Sound, Exact, payment_status
  <2>4. \A w \in Worker : ~ req[w].busy
    BY DEF Init, Idle
  <2> QED
    BY <2>2, <2>3, <2>4 DEF PurchaseInv, Alone
<1>2. ASSUME PurchaseInv, [Next]_vars
      PROVE  PurchaseInv'
  <2> USE <1>2
  <2>1. ASSUME NEW w \in Worker, NEW b \in Bill, NEW lines \in [Material -> Quantity],
               NEW price \in Price, NEW discount \in Discount, NEW paid \in Price,
               NEW stockIn \in BOOLEAN,
               create_invoice(w, b, lines, price, discount, paid, stockIn)
        PROVE  PurchaseInv'
    BY <2>1, InvoiceCreated, PrepareStep
  <2>2. ASSUME NEW w \in Worker, NEW b \in Bill, apply_stock(w, b)
        PROVE  PurchaseInv'
    BY <2>2, StockedIn, PrepareStep
  <2>3. ASSUME NEW w \in Worker, NEW b \in Bill, delete_invoice(w, b)
        PROVE  PurchaseInv'
    BY <2>3, BillRemoved, PrepareStep
  <2>4. ASSUME NEW w \in Worker, NEW b \in Bill, NEW amount \in Price \ {0},
               add_payment(w, b, amount)
        PROVE  PurchaseInv'
    BY <2>4, BillPaid, PrepareStep
  <2>5. ASSUME NEW w \in Worker, Commit(w)
        PROVE  PurchaseInv'
    BY <2>5, CommitStep
  <2>6. ASSUME NEW m \in Material, Consume(m)
        PROVE  PurchaseInv'
    BY <2>6, ConsumeStep
  <2>7. CASE UNCHANGED vars
    BY <2>7 DEF vars, PurchaseInv, TypeOK, Sound, RequestOK, Outdated, Alone
  <2> QED
    BY <2>1, <2>2, <2>3, <2>4, <2>5, <2>6, <2>7 DEF Next
<1> QED
  BY <1>1, <1>2

LEMMA PurchasesInvariant == Spec => []PurchaseInv
  BY PurchasesInductive, PTL DEF Spec

-----------------------------------------------------------------------------
\* The rows of bills, payments, stock and ledger keep their types, and no stock
\* is negative, however purchase requests and the kitchen overlap.
THEOREM PurchasesTyped == Spec => []TypeOK
<1>1. PurchaseInv => TypeOK
  BY DEF PurchaseInv
<1> QED
  BY <1>1, PurchasesInvariant, PTL

\* However requests overlap, no bill counts more as paid than it costs; one at
\* a time, what counts as paid is the sum of the payment rows.
THEOREM NeverOverpaid == Spec => []PaidWithinTotal
<1>1. ASSUME PurchaseInv
      PROVE  PaidWithinTotal
  <2> USE <1>1
  <2> SUFFICES ASSUME NEW b \in SavedBills
               PROVE  /\ db.paid[b] <= db.total[b]
                      /\ ~ overlapped =>
                           /\ db.paid[b] = db.rows[b]
                           /\ db.payment[b] = "paid" <=> db.paid[b] = db.total[b] /\ db.paid[b] > 0
                           /\ db.payment[b] = "unpaid" <=> db.paid[b] = 0
    BY DEF PaidWithinTotal
  <2>1. b \in Bill /\ db.paid[b] \in Nat /\ db.total[b] \in Nat /\ db.paid[b] <= db.total[b]
    BY DEF SavedBills, PurchaseInv, TypeOK, Rows, Sound
  <2>2. ~ overlapped => /\ db.paid[b] = db.rows[b]
                        /\ db.payment[b] = payment_status(db.total[b], db.paid[b])
    BY <2>1 DEF PurchaseInv, Alone, Exact
  <2> QED
    BY <2>1, <2>2 DEF payment_status
<1> QED
  BY <1>1, PurchasesInvariant, PTL
-----------------------------------------------------------------------------
(* The ledger, one request at a time *)

\* The bills that exist and were stocked in, and what a bill has of m.
Stocked(d) == {b \in Bill : d.bill[b] = "saved" /\ d.applied[b]}

QuantityOf(d, m) == [b \in Bill |-> d.lines[b][m]]

\* The ledger of d, with what the kitchen has taken, holds the stocked bills once;
\* the stock may be more, where taking back a bill stopped at zero.
Counts(d, taken) ==
  /\ \A b \in Bill : d.bill[b] = "unused" => ~ d.applied[b]
  /\ \A m \in Material :
       /\ d.ledger[m] + taken[m] = SumFunctionOnSet(QuantityOf(d, m), Stocked(d))
       /\ d.ledger[m] <= d.stock[m]

\* The inductive invariant of the ledger, on top of PurchaseInv.
LedgerInv ==
  ~ overlapped => /\ Counts(db, used)
                  /\ \A w \in Worker : req[w].busy => Counts(req[w].new, used)

\* The sums are over finitely many bills and have integer terms.
LEMMA SumTerms ==
  ASSUME NEW d \in Rows, NEW m \in Material
  PROVE  /\ IsFiniteSet(Stocked(d))
         /\ \A b \in Bill : QuantityOf(d, m)[b] = d.lines[b][m] /\ d.lines[b][m] \in Nat
         /\ SumFunctionOnSet(QuantityOf(d, m), Stocked(d)) \in Int
<1>1. IsFiniteSet(Stocked(d))
  BY PurchaseAssumption, FS_Subset DEF Stocked
<1>2. \A b \in Bill : QuantityOf(d, m)[b] = d.lines[b][m] /\ d.lines[b][m] \in Nat
  BY DEF QuantityOf, Rows
<1>3. \A b \in Stocked(d) : QuantityOf(d, m)[b] \in Int
  BY <1>2 DEF Stocked
<1> QED
  BY <1>1, <1>2, <1>3, SumInt

\* Rows with the same stocked bills, lines, stock and ledger count the same.
LEMMA CountsSame ==
  ASSUME NEW d \in Rows, Counts(d, used), NEW e \in Rows,
         \A b \in Bill : e.bill[b] = "unused" => ~ e.applied[b],
         Stocked(e) = Stocked(d), \A b \in Stocked(d) : e.lines[b] = d.lines[b],
         e.stock = d.stock, e.ledger = d.ledger
  PROVE  Counts(e, used)
<1> SUFFICES ASSUME NEW m \in Material
             PROVE  SumFunctionOnSet(QuantityOf(e, m), Stocked(e))
                      = SumFunctionOnSet(QuantityOf(d, m), Stocked(d))
  BY DEF Counts
<1>1. \A b \in Stocked(d) : QuantityOf(e, m)[b] = QuantityOf(d, m)[b]
  BY DEF QuantityOf, Stocked
<1> QED
  BY <1>1, SumTerms, SumSame

\* Stocking in a bill that is not yet: its lines join the sum.
LEMMA CountsApplied ==
  ASSUME NEW d \in Rows, Counts(d, used), NEW b \in Bill,
         d.bill[b] = "saved", ~ d.applied[b], used \in [Material -> Nat]
  PROVE  Counts(ApplyStock(d, b), used)
<1> DEFINE e == ApplyStock(d, b)
           some == \E m \in Material : d.lines[b][m] > 0
<1>1. e \in Rows /\ e.bill = d.bill
  BY StockApplied
<1>2. /\ e.lines = d.lines
      /\ \A m \in Material : /\ e.stock[m] = d.stock[m] + d.lines[b][m]
                             /\ e.ledger[m] = d.ledger[m] + d.lines[b][m]
      /\ \A c \in Bill \ {b} : e.applied[c] = d.applied[c]
      /\ e.applied[b] = some
  BY DEF ApplyStock, Rows
<1> HIDE DEF e
<1>3. \A c \in Bill : e.bill[c] = "unused" => ~ e.applied[c]
  BY <1>1, <1>2 DEF Counts
<1>4. ASSUME NEW m \in Material
      PROVE  /\ e.ledger[m] + used[m] = SumFunctionOnSet(QuantityOf(e, m), Stocked(e))
             /\ e.ledger[m] <= e.stock[m]
  <2> DEFINE f == QuantityOf(d, m)
  <2>1. QuantityOf(e, m) = f
    BY <1>2 DEF QuantityOf
  <2>2. /\ d.ledger[m] + used[m] = SumFunctionOnSet(f, Stocked(d))
        /\ d.ledger[m] <= d.stock[m]
    BY DEF Counts
  <2>3. /\ d.ledger[m] \in Int /\ d.stock[m] \in Nat /\ used[m] \in Nat
        /\ d.lines[b][m] \in Nat /\ f[b] = d.lines[b][m]
        /\ IsFiniteSet(Stocked(d)) /\ SumFunctionOnSet(f, Stocked(d)) \in Int
        /\ \A c \in Bill : f[c] \in Int
    BY SumTerms DEF Rows
  <2> HIDE DEF f
  <2>4. SumFunctionOnSet(f, Stocked(e)) = d.lines[b][m] + SumFunctionOnSet(f, Stocked(d))
    <3>1. CASE some
      <4>1. Stocked(e) = Stocked(d) \cup {b} /\ b \notin Stocked(d)
        BY <1>1, <1>2, <3>1 DEF Stocked
      <4>2. \A c \in Stocked(d) \cup {b} : f[c] \in Int
        BY <2>3 DEF Stocked
      <4> QED
        BY <2>3, <4>1, <4>2, SumAdd
    <3>2. CASE ~ some
      <4>1. Stocked(e) = Stocked(d)
        BY <1>1, <1>2, <3>2 DEF Stocked
      <4>2. d.lines[b][m] = 0
        BY <2>3, <3>2
      <4> QED
        BY <2>3, <4>1, <4>2
    <3> QED
      BY <3>1, <3>2
  <2> QED
    BY <1>2, <2>1, <2>2, <2>3, <2>4
<1> QED
  BY <1>3, <1>4 DEF Counts, e

\* Deleting a bill: its lines leave the sum if they were in it.
LEMMA CountsDeleted ==
  ASSUME NEW d \in Rows, Counts(d, used), NEW b \in Bill, d.bill[b] = "saved",
         used \in [Material -> Nat]
  PROVE  Counts([TakeBack(d, b) EXCEPT !.bill[b] = "deleted"], used)
<1> DEFINE e == [TakeBack(d, b) EXCEPT !.bill[b] = "deleted"]
<1>1. e \in Rows /\ e.bill = [d.bill EXCEPT ![b] = "deleted"]
  BY BillDeleted
<1>2. /\ e.lines = d.lines /\ e.applied = d.applied
      /\ \A m \in Material :
           /\ e.stock[m] = IF d.applied[b] THEN NotBelowZero(d.stock[m] - d.lines[b][m])
                           ELSE d.stock[m]
           /\ e.ledger[m] = IF d.applied[b] THEN d.ledger[m] - d.lines[b][m]
                            ELSE d.ledger[m]
  <2>1. CASE d.applied[b]
    BY <2>1 DEF TakeBack, Rows
  <2>2. CASE ~ d.applied[b]
    BY <2>2 DEF TakeBack, Rows
  <2> QED
    BY <2>1, <2>2
<1> HIDE DEF e
<1>3. Stocked(e) = Stocked(d) \ {b}
  BY <1>1, <1>2 DEF Stocked, Rows
<1>4. \A c \in Bill : e.bill[c] = "unused" => ~ e.applied[c]
  BY <1>1, <1>2 DEF Counts, Rows
<1>5. ASSUME NEW m \in Material
      PROVE  /\ e.ledger[m] + used[m] = SumFunctionOnSet(QuantityOf(e, m), Stocked(e))
             /\ e.ledger[m] <= e.stock[m]
  <2> DEFINE f == QuantityOf(d, m)
  <2>1. QuantityOf(e, m) = f
    BY <1>2 DEF QuantityOf
  <2>2. /\ d.ledger[m] + used[m] = SumFunctionOnSet(f, Stocked(d))
        /\ d.ledger[m] <= d.stock[m]
    BY DEF Counts
  <2>3. /\ d.ledger[m] \in Int /\ d.stock[m] \in Nat /\ used[m] \in Nat
        /\ d.lines[b][m] \in Nat /\ f[b] = d.lines[b][m]
        /\ IsFiniteSet(Stocked(d)) /\ SumFunctionOnSet(f, Stocked(d)) \in Int
        /\ \A c \in Bill : f[c] \in Int
    BY SumTerms DEF Rows
  <2>6. SumFunctionOnSet(QuantityOf(e, m), Stocked(e)) \in Int
    BY <1>1, SumTerms
  <2> HIDE DEF f
  <2>4. CASE d.applied[b]
    <3>1. b \in Stocked(d) /\ \A c \in Stocked(d) : f[c] \in Int
      BY <2>3, <2>4 DEF Stocked
    <3>2. SumFunctionOnSet(f, Stocked(d)) = f[b] + SumFunctionOnSet(f, Stocked(d) \ {b})
      BY <2>3, <3>1, SumTakeOut
    <3> QED
      BY <1>2, <1>3, <2>1, <2>2, <2>3, <2>4, <2>6, <3>2 DEF NotBelowZero
  <2>5. CASE ~ d.applied[b]
    <3>1. Stocked(e) = Stocked(d)
      BY <1>3, <2>5 DEF Stocked
    <3> QED
      BY <1>2, <2>1, <2>2, <2>5, <3>1
  <2> QED
    BY <2>4, <2>5
<1> QED
  BY <1>4, <1>5 DEF Counts, e

\* What a request prepares counts as the rows it read do.
LEMMA CountsPrepared ==
  ASSUME PurchaseInv, Counts(db, used), NEW w \in Worker,
         \/ \E b \in Bill, lines \in [Material -> Quantity], price \in Price,
               discount \in Discount, paid \in Price, stockIn \in BOOLEAN :
              create_invoice(w, b, lines, price, discount, paid, stockIn)
         \/ \E b \in Bill : apply_stock(w, b) \/ delete_invoice(w, b)
         \/ \E b \in Bill, amount \in Price \ {0} : add_payment(w, b, amount)
  PROVE  \E new : Prepare(w, new) /\ Counts(new, used)
<1>1. db \in Rows /\ used \in [Material -> Nat]
  BY DEF PurchaseInv, TypeOK
<1>2. ASSUME NEW b \in Bill, NEW lines \in [Material -> Quantity], NEW price \in Price,
             NEW discount \in Discount, NEW paid \in Price, NEW stockIn \in BOOLEAN,
             create_invoice(w, b, lines, price, discount, paid, stockIn)
      PROVE  \E new : Prepare(w, new) /\ Counts(new, used)
  <2> DEFINE total == price - discount
             bill == NewBill(db, b, lines, total, paid)
  <2>1. b \in Free /\ total >= 0 /\ Prepare(w, IF stockIn THEN ApplyStock(bill, b) ELSE bill)
    BY <1>2, Zenon DEF create_invoice
  <2>2. db.bill[b] = "unused" /\ ~ db.applied[b]
    BY <2>1 DEF Free, Counts
  <2>3. /\ lines \in [Material -> Nat] /\ paid \in Nat /\ total \in Nat
        /\ payment_status(total, paid) \in PaymentStatus
    <3>1. lines \in [Material -> Nat] /\ paid \in Nat /\ price \in Nat /\ discount \in Nat
      BY PurchaseAssumption
    <3>2. total \in Nat
      BY <2>1, <3>1
    <3>3. payment_status(total, paid) \in PaymentStatus
      BY DEF payment_status, PaymentStatus
    <3> QED
      BY <3>1, <3>2, <3>3
  <2> HIDE DEF total
  <2>4. /\ bill \in Rows
        /\ bill.bill = [db.bill EXCEPT ![b] = "saved"]
        /\ bill.lines = [db.lines EXCEPT ![b] = lines]
        /\ bill.applied = db.applied /\ bill.stock = db.stock /\ bill.ledger = db.ledger
    BY <1>1, <2>3 DEF NewBill, Rows, BillState
  <2> HIDE DEF bill
  <2>5. Stocked(bill) = Stocked(db) /\ \A c \in Stocked(db) : bill.lines[c] = db.lines[c]
    BY <1>1, <2>2, <2>4 DEF Stocked, Rows
  <2>6. \A c \in Bill : bill.bill[c] = "unused" => ~ bill.applied[c]
    BY <1>1, <2>4 DEF Counts, Rows
  <2>7. Counts(bill, used)
    BY <1>1, <2>4, <2>5, <2>6, CountsSame
  <2>8. bill.bill[b] = "saved" /\ ~ bill.applied[b]
    BY <1>1, <2>2, <2>4 DEF Rows
  <2>9. Counts(ApplyStock(bill, b), used)
    BY <1>1, <2>4, <2>7, <2>8, CountsApplied
  <2> QED
    BY <2>1, <2>7, <2>9
<1>3. ASSUME NEW b \in Bill, apply_stock(w, b)
      PROVE  \E new : Prepare(w, new) /\ Counts(new, used)
  BY <1>1, <1>3, CountsApplied DEF apply_stock
<1>4. ASSUME NEW b \in Bill, delete_invoice(w, b)
      PROVE  \E new : Prepare(w, new) /\ Counts(new, used)
  BY <1>1, <1>4, CountsDeleted DEF delete_invoice
<1>5. ASSUME NEW b \in Bill, NEW amount \in Price \ {0}, add_payment(w, b, amount)
      PROVE  \E new : Prepare(w, new) /\ Counts(new, used)
  <2>1. Prepare(w, AddPayment(db, b, amount)) /\ amount \in Nat
    BY <1>5, PurchaseAssumption DEF add_payment
  <2>2. AddPayment(db, b, amount) \in Rows /\ AddPayment(db, b, amount).bill = db.bill
    <3> DEFINE new == AddPayment(db, b, amount)
    <3>1. /\ new \in Rows
          /\ new.bill = db.bill /\ new.total = db.total
          /\ new.paid = [db.paid EXCEPT ![b] = db.paid[b] + amount]
          /\ new.payment = [db.payment EXCEPT
                              ![b] = payment_status(db.total[b], db.paid[b] + amount)]
          /\ new.rows = [db.rows EXCEPT ![b] = db.rows[b] + amount]
      BY <1>1, <2>1, PaymentAdded
    <3> QED
      BY <3>1
  <2>3. /\ AddPayment(db, b, amount).lines = db.lines
        /\ AddPayment(db, b, amount).applied = db.applied
        /\ AddPayment(db, b, amount).stock = db.stock
        /\ AddPayment(db, b, amount).ledger = db.ledger
    BY <1>1 DEF AddPayment, Rows
  <2> DEFINE new == AddPayment(db, b, amount)
  <2> HIDE DEF new
  <2>4. Stocked(new) = Stocked(db) /\ \A c \in Bill : new.bill[c] = "unused" => ~ new.applied[c]
    BY <2>2, <2>3 DEF Stocked, Counts, new
  <2>5. Counts(new, used)
    BY <1>1, <2>2, <2>3, <2>4, CountsSame DEF new
  <2> QED
    BY <2>1, <2>5 DEF new
<1> QED
  BY <1>2, <1>3, <1>4, <1>5

\* Alone, a commit writes just what was prepared.
LEMMA MergedAlone ==
  ASSUME NEW cur \in Rows, NEW new \in Rows
  PROVE  Merged(cur, cur, new) = new
<1>1. \A S, T : \A c, n \in [S -> T] : Written(c, c, n) = n
  <2> SUFFICES ASSUME NEW S, NEW T, NEW c \in [S -> T], NEW n \in [S -> T]
               PROVE  Written(c, c, n) = n
    OBVIOUS
  <2>1. \A k \in S : Written(c, c, n)[k] = n[k]
    BY DEF Written
  <2>2. DOMAIN Written(c, c, n) = S /\ Written(c, c, n) = [k \in S |-> Written(c, c, n)[k]]
    BY DEF Written
  <2> QED
    BY <2>1, <2>2
<1>2. \A S : \A c, n \in [S -> Int] : Added(c, c, n) = n
  <2> SUFFICES ASSUME NEW S, NEW c \in [S -> Int], NEW n \in [S -> Int]
               PROVE  Added(c, c, n) = n
    OBVIOUS
  <2>1. \A k \in S : c[k] + (n[k] - c[k]) = n[k]
    OBVIOUS
  <2> QED
    BY <2>1 DEF Added
<1>3. /\ cur.rows \in [Bill -> Int] /\ new.rows \in [Bill -> Int]
      /\ cur.ledger \in [Material -> Int] /\ new.ledger \in [Material -> Int]
  BY DEF Rows
<1>4. Added(cur.rows, cur.rows, new.rows) = new.rows
      /\ Added(cur.ledger, cur.ledger, new.ledger) = new.ledger
  BY <1>2, <1>3
<1>5. /\ Written(cur.bill, cur.bill, new.bill) = new.bill
      /\ Written(cur.lines, cur.lines, new.lines) = new.lines
      /\ Written(cur.total, cur.total, new.total) = new.total
      /\ Written(cur.paid, cur.paid, new.paid) = new.paid
      /\ Written(cur.payment, cur.payment, new.payment) = new.payment
      /\ Written(cur.applied, cur.applied, new.applied) = new.applied
      /\ Written(cur.stock, cur.stock, new.stock) = new.stock
  <2>1. Written(cur.bill, cur.bill, new.bill) = new.bill
    <3>1. cur.bill \in [Bill -> BillState] /\ new.bill \in [Bill -> BillState]
      BY DEF Rows
    <3> QED
      BY <1>1, <3>1
  <2>2. Written(cur.lines, cur.lines, new.lines) = new.lines
    <3>1. cur.lines \in [Bill -> [Material -> Nat]] /\ new.lines \in [Bill -> [Material -> Nat]]
      BY DEF Rows
    <3> QED
      BY <1>1, <3>1
  <2>3. Written(cur.total, cur.total, new.total) = new.total
    <3>1. cur.total \in [Bill -> Nat] /\ new.total \in [Bill -> Nat]
      BY DEF Rows
    <3> QED
      BY <1>1, <3>1
  <2>4. Written(cur.paid, cur.paid, new.paid) = new.paid
    <3>1. cur.paid \in [Bill -> Nat] /\ new.paid \in [Bill -> Nat]
      BY DEF Rows
    <3> QED
      BY <1>1, <3>1
  <2>5. Written(cur.payment, cur.payment, new.payment) = new.payment
    <3>1. cur.payment \in [Bill -> PaymentStatus] /\ new.payment \in [Bill -> PaymentStatus]
      BY DEF Rows
    <3> QED
      BY <1>1, <3>1
  <2>6. Written(cur.applied, cur.applied, new.applied) = new.applied
    <3>1. cur.applied \in [Bill -> BOOLEAN] /\ new.applied \in [Bill -> BOOLEAN]
      BY DEF Rows
    <3> QED
      BY <1>1, <3>1
  <2>7. Written(cur.stock, cur.stock, new.stock) = new.stock
    <3>1. cur.stock \in [Material -> Nat] /\ new.stock \in [Material -> Nat]
      BY DEF Rows
    <3> QED
      BY <1>1, <3>1
  <2> QED
    BY <2>1, <2>2, <2>3, <2>4, <2>5, <2>6, <2>7
<1> QED
  BY <1>4, <1>5 DEF Merged, Rows

LEMMA LedgerInductive ==
  /\ Init => LedgerInv
  /\ PurchaseInv /\ LedgerInv /\ [Next]_vars => LedgerInv'
<1>1. Init => LedgerInv
  <2> SUFFICES ASSUME Init
               PROVE  LedgerInv
    OBVIOUS
  <2>1. Stocked(db) = {} /\ \A w \in Worker : ~ req[w].busy
    BY DEF Init, Stocked, Idle
  <2>2. \A m \in Material : SumFunctionOnSet(QuantityOf(db, m), Stocked(db)) = 0
    BY <2>1, SumEmpty
  <2>3. \A m \in Material : db.ledger[m] = 0 /\ used[m] = 0 /\ db.stock[m] = 0
    BY DEF Init
  <2>4. \A b \in Bill : ~ db.applied[b]
    BY DEF Init
  <2>5. Counts(db, used)
    BY <2>2, <2>3, <2>4 DEF Counts
  <2> QED
    BY <2>1, <2>5 DEF LedgerInv
<1>2. ASSUME PurchaseInv, LedgerInv, [Next]_vars
      PROVE  LedgerInv'
  <2> USE <1>2
  <2>1. req \in [Worker -> Busy \cup {Idle}] /\ db \in Rows /\ used \in [Material -> Nat]
    BY DEF PurchaseInv, TypeOK
  <2>2. ASSUME NEW w \in Worker, NEW new, Prepare(w, new), ~ overlapped', Counts(new, used)
        PROVE  LedgerInv'
    <3>1. /\ overlapped' = (overlapped \/ \E v \in Worker : req[v].busy)
          /\ req' = [req EXCEPT ![w] = [busy |-> TRUE, loaded |-> db, new |-> new]]
          /\ db' = db /\ used' = used
      BY <2>2 DEF Prepare
    <3>2. ~ overlapped /\ \A v \in Worker : ~ req[v].busy
      BY <2>2, <3>1
    <3>3. Counts(db', used') /\ Counts(req'[w].new, used')
      BY <2>1, <2>2, <3>1, <3>2 DEF LedgerInv
    <3>4. \A v \in Worker : req'[v].busy => v = w
      BY <2>1, <3>1, <3>2
    <3> QED
      BY <2>2, <3>3, <3>4 DEF LedgerInv
  <2>3. ASSUME NEW w \in Worker, NEW new, Prepare(w, new), ~ overlapped'
        PROVE  Counts(db, used)
    BY <2>3 DEF Prepare, LedgerInv
  <2>4. ASSUME NEW w \in Worker,
               \/ \E b \in Bill, lines \in [Material -> Quantity], price \in Price,
                     discount \in Discount, paid \in Price, stockIn \in BOOLEAN :
                    create_invoice(w, b, lines, price, discount, paid, stockIn)
               \/ \E b \in Bill : apply_stock(w, b) \/ delete_invoice(w, b)
               \/ \E b \in Bill, amount \in Price \ {0} : add_payment(w, b, amount)
        PROVE  LedgerInv'
    <3>1. SUFFICES ASSUME ~ overlapped'
                   PROVE  LedgerInv'
      BY DEF LedgerInv
    <3>2. \E new : Prepare(w, new)
      BY <2>4 DEF create_invoice, apply_stock, delete_invoice, add_payment
    <3>3. Counts(db, used)
      BY <2>3, <3>1, <3>2
    <3> QED
      BY <2>2, <2>4, <3>1, <3>3, CountsPrepared
  <2>5. ASSUME NEW w \in Worker, Commit(w)
        PROVE  LedgerInv'
    <3> SUFFICES ASSUME ~ overlapped'
                 PROVE  /\ Counts(db', used')
                        /\ \A v \in Worker : ~ req'[v].busy
      BY DEF LedgerInv
    <3>1. /\ req[w].busy /\ req' = [req EXCEPT ![w] = Idle]
          /\ db' = IF MissesRow(db, req[w].loaded, req[w].new) THEN db
                   ELSE Merged(db, req[w].loaded, req[w].new)
          /\ overlapped' = overlapped /\ used' = used
      BY <2>5 DEF Commit
    <3>2. req[w].new \in Rows /\ req[w].loaded = db /\ \A v \in Worker \ {w} : ~ req[v].busy
      <4>1. req[w] \in Busy
        BY <2>1, <3>1 DEF Idle
      <4> QED
        BY <3>1, <4>1 DEF Busy, PurchaseInv, Alone
    <3>3. db' \in {db, req[w].new}
      BY <2>1, <3>1, <3>2, MergedAlone
    <3>4. Counts(db, used) /\ Counts(req[w].new, used)
      BY <3>1 DEF LedgerInv
    <3>5. Counts(db', used')
      BY <3>1, <3>3, <3>4 DEF Counts, Stocked, QuantityOf
    <3>6. \A v \in Worker : ~ req'[v].busy
      BY <2>1, <3>1, <3>2 DEF Idle
    <3> QED
      BY <3>5, <3>6
  <2>6. ASSUME NEW m \in Material, Consume(m)
        PROVE  LedgerInv'
    <3> SUFFICES ASSUME ~ overlapped'
                 PROVE  /\ Counts(db', used')
                        /\ \A v \in Worker : ~ req'[v].busy
      BY DEF LedgerInv
    <3>1. /\ db.stock[m] > 0 /\ db' = [db EXCEPT !.stock[m] = @ - 1, !.ledger[m] = @ - 1]
          /\ overlapped' = (overlapped \/ \E v \in Worker : req[v].busy)
          /\ used' = [used EXCEPT ![m] = @ + 1] /\ req' = req
      BY <2>6 DEF Consume
    <3>2. ~ overlapped /\ \A v \in Worker : ~ req'[v].busy
      BY <3>1
    <3>3. Counts(db, used)
      BY <3>2 DEF LedgerInv
    <3>4. db'.bill = db.bill /\ db'.applied = db.applied /\ db'.lines = db.lines
      BY <2>1, <3>1 DEF Rows
    <3>5. Stocked(db') = Stocked(db) /\ \A k \in Material : QuantityOf(db', k) = QuantityOf(db, k)
      BY <3>4 DEF Stocked, QuantityOf
    <3>6. \A k \in Material :
            /\ db'.ledger[k] + used'[k] = db.ledger[k] + used[k]
            /\ db.ledger[k] <= db.stock[k] => db'.ledger[k] <= db'.stock[k]
      <4>1. /\ db'.stock = [db.stock EXCEPT ![m] = db.stock[m] - 1]
            /\ db'.ledger = [db.ledger EXCEPT ![m] = db.ledger[m] - 1]
        BY <2>1, <3>1 DEF Rows
      <4>2. db.stock \in [Material -> Nat] /\ db.ledger \in [Material -> Int]
        BY <2>1 DEF Rows
      <4> QED
        BY <2>1, <3>1, <4>1, <4>2
    <3>7. Counts(db', used')
      BY <3>3, <3>4, <3>5, <3>6 DEF Counts
    <3> QED
      BY <3>2, <3>7
  <2>7. CASE UNCHANGED vars
    BY <2>7 DEF vars, LedgerInv, Counts, Stocked, QuantityOf
  <2> QED
    BY <2>4, <2>5, <2>6, <2>7 DEF Next
<1> QED
  BY <1>1, <1>2

\* One request at a time, with the kitchen taking from the stock in between,
\* the ledger holds every bill that was stocked in and still exists exactly
\* once, for any bills and quantities; and there is never less in stock.
THEOREM LedgerExact == Spec => []LedgerCountsBillsOnce
<1>1. LedgerInv => LedgerCountsBillsOnce
  <2>1. Stocked(db) = {b \in SavedBills : db.applied[b]}
    BY DEF Stocked, SavedBills
  <2> QED
    BY <2>1 DEF LedgerInv, Counts, QuantityOf, LedgerCountsBillsOnce
<1> QED
  BY <1>1, LedgerInductive, PurchasesInvariant, PTL DEF Spec
=============================================================================
